---------------------------- MODULE Spec2Model ----------------------------
(***************************************************************************)
(* Model of nanobind's instance and type bridge (src/src/nb_type.cpp,      *)
(* src/src/nb_internals.h): the C++ -> Python instance map (inst_c2p), the  *)
(* instance allocator and deallocator, the return-value-policy engine      *)
(* (nb_type_put), the unique-ownership helpers and the keep_alive table.   *)
(*                                                                         *)
(* Every C function is an operator on a machine record                      *)
(*   m = [inst, inst_c2p, type_c2p, keep_alive, log, fatal]                 *)
(* and returns the machine after the call (and the returned object).  An   *)
(* action applies one public entry point to the current state, so a step   *)
(* of the model is one whole call, nested deallocations included.          *)
(***************************************************************************)
EXTENDS Integers, Sequences, FiniteSets, TLC

(***************************************************************************)
(* Bounds of the model.                                                    *)
(***************************************************************************)
\* number of nb_inst objects that can be allocated at the same time
MaxInst == 3
\* largest reference count an object reaches
MaxRef == 2
\* longest keep_alive list of one nurse
MaxEdges == 3

\* conversion entries of one kind that a destination type may hold
MaxImplicit == 2

VARIABLES
    inst,        \* heap of nb_inst objects: object id -> nb_inst fields
    inst_c2p,    \* nb_internals::inst_c2p, payload address -> entry
    type_c2p,    \* nb_internals::type_c2p, std::type_info -> type object
    keep_alive,  \* nb_internals::keep_alive, nurse -> list of nb_weakref_seq
    log,         \* effects of the last call, in the order they happened
    call,        \* the last call: entry point, arguments, returned value
    nb_types,    \* type objects created at run time: type object -> type_data
    nb_type_dict,\* nb_internals::nb_type_dict, supplement size -> metaclass
    tp_dict,     \* the attributes of the type objects: type -> name -> object
    nb_static_property_enabled, \* nb_internals::nb_static_property_enabled
    fatal        \* the message of the fail() / failed check() that aborted the
                 \* process, NoError while it runs

vars == <<inst, inst_c2p, type_c2p, keep_alive, log, call, nb_types, nb_type_dict,
          tp_dict, nb_static_property_enabled, fatal>>

(***************************************************************************)
(* Objects, addresses, types.                                              *)
(***************************************************************************)
\* ids of nb_inst objects (the PyObject* of a wrapper)
Inst == 1 .. MaxInst

\* nullptr / no object returned
NULL == 0

\* native addresses that live outside of any wrapper
ExtAddr == {101, 102}

\* The payload of a wrapper with co-located storage lies inside the wrapper's
\* own allocation (inst_new_impl, "self + 1" rounded up to the alignment): one
\* address per object.
InternalAddr(self) == self

Addr == ExtAddr \cup {InternalAddr(w) : w \in Inst}

\* std::type_info identities; "U" is never bound
CppType == {"A", "B", "D", "I", "S", "U", "V"}

\* bound Python type objects (nb_type instances)
TypeObj == {"tA", "tB", "tD", "tI", "tS"}

NoType == "none"

\* type objects that are created while the program runs
NewTypeObj == {"t1", "t2", "t3"}

\* the type_data of a type object that does not exist
NoTypeData ==
    [type |-> NoType, base |-> NoType, flags |-> {}, type_py |-> NoType,
     size |-> 0, align |-> 0, destruct |-> NoType,
     implicit |-> << >>, implicit_py |-> << >>,
     supplement |-> 0, metaclass |-> NoType]

\* sizes of the supplement that a binding may ask for (0: no supplement)
Supplement == {0, 1, 2}

\* the metaclass objects, in the order in which they are created
MetaSeq == <<"mt1", "mt2", "mt3">>

\* type_data of a type object (nb_type_data): the C++ identity, the base type
\* object and the type_flags that the instance bridge reads.
\*   A : a class with user-provided copy/move constructors and destructor
\*   B : a trivially copyable aggregate with a __dict__, unrelated to A
\*   D : a class derived from A
\*   I : a class with an intrusive reference counter (intrusive_ptr)
\*   S : a class derived from std::enable_shared_from_this
nb_type_data(tp) ==
    CASE tp = "tA" ->
           [type |-> "A", base |-> NoType,
            flags |-> {"is_destructible", "has_destruct",
                       "is_copy_constructible", "has_copy",
                       "is_move_constructible", "has_move"}]
      [] tp = "tB" ->
           [type |-> "B", base |-> NoType,
            flags |-> {"is_destructible", "is_copy_constructible",
                       "has_dynamic_attr"}]
      [] tp = "tD" ->
           [type |-> "D", base |-> "tA",
            flags |-> {"is_destructible", "has_destruct",
                       "is_copy_constructible", "has_copy",
                       "is_move_constructible", "has_move"}]
      [] tp = "tI" ->
           [type |-> "I", base |-> NoType,
            flags |-> {"is_destructible", "has_destruct",
                       "is_copy_constructible", "has_copy",
                       "is_move_constructible", "has_move", "intrusive_ptr"}]
      [] tp = "tS" ->
           [type |-> "S", base |-> NoType,
            flags |-> {"is_destructible", "has_destruct",
                       "is_copy_constructible", "has_copy",
                       "has_shared_from_this"}]
      [] tp \in NewTypeObj ->
           [type |-> nb_types[tp].type, base |-> nb_types[tp].base,
            flags |-> nb_types[tp].flags]

\* PyType_IsSubtype(a, b): b is a or one of a's bases
RECURSIVE PyType_IsSubtype(_, _)
PyType_IsSubtype(a, b) ==
    IF a = b THEN TRUE
    ELSE IF a = NoType \/ nb_type_data(a).base = NoType THEN FALSE
    ELSE PyType_IsSubtype(nb_type_data(a).base, b)

\* enum class rv_policy
rv_policy == {"copy", "move", "reference", "reference_internal",
              "take_ownership", "none"}

(***************************************************************************)
(* nb_inst: the fields of a wrapper.  A free slot of the heap holds NoInst. *)
(***************************************************************************)
NoInst == [tp |-> NoType, ptr |-> NULL, internal |-> FALSE, ready |-> FALSE,
           destruct |-> FALSE, cpp_delete |-> FALSE,
           clear_keep_alive |-> FALSE, refcnt |-> 0]

\* is the slot an allocated object (between PyObject_Malloc and PyObject_Free)
IsLive(m, w) == m.inst[w].tp # NoType

\* inst_ptr(): the payload address a wrapper decodes to
inst_ptr(m, w) == m.inst[w].ptr

\* slots PyObject_Malloc may return
FreeInst(m) == {w \in Inst : ~IsLive(m, w)}

(***************************************************************************)
(* The effects log.                                                        *)
(***************************************************************************)
\* an effect `ev` of the call on object w: the address it touched and, for a
\* released keep_alive node, the node
NoCallback == "null"

WeakrefSeq(payload, callback) == [payload |-> payload, callback |-> callback]

Ev(ev, w, p) == [ev |-> ev, w |-> w, p |-> p, node |-> WeakrefSeq(NULL, NoCallback)]

EvNode(ev, w, c) == [ev |-> ev, w |-> w, p |-> NULL, node |-> c]

Emit(m, e) == [m EXCEPT !.log = Append(@, e)]

\* fail() and a failed check(): the process aborts with a message
NoError == "running"

Fatal(m) == m.fatal # NoError

Fail(m, what) == [m EXCEPT !.fatal = what]

(***************************************************************************)
(* inst_c2p entries.  An entry either stores one object directly (bit 0    *)
(* clear) or a tagged pointer to a linked list of nb_inst_seq nodes.        *)
(***************************************************************************)
DirectEntry(w) == [is_seq |-> FALSE, list |-> <<w>>]

\* nb_mark_seq: tag a list as such
nb_mark_seq(list) == [is_seq |-> TRUE, list |-> list]

\* nb_is_seq
nb_is_seq(entry) == entry.is_seq

\* nb_get_seq
nb_get_seq(entry) == entry.list

\* the one element of a singleton set.  Only({F(x) : x \in {e}}) is F applied
\* to the value of e, which is computed once
Only(S) == CHOOSE x \in S : TRUE

\* robin_map::erase
MapErase(map, key) == [k \in (DOMAIN map) \ {key} |-> map[k]]

\* robin_map::try_emplace / operator[] assignment
MapSet(map, key, value) ==
    [k \in (DOMAIN map) \cup {key} |-> IF k = key THEN value ELSE map[k]]

\* a sequence without its i-th element
SeqRemoveAt(s, i) == [j \in 1 .. (Len(s) - 1) |-> IF j < i THEN s[j] ELSE s[j + 1]]

\* inst_new_impl, lines 117-150: record `self` under its payload address
inst_c2p_insert(m, value, self) ==
    IF value \notin DOMAIN m.inst_c2p
    THEN [m EXCEPT !.inst_c2p = MapSet(@, value, DirectEntry(self))]
    ELSE LET entry == m.inst_c2p[value]
             \* potentially convert the map value into linked list format
             seq   == nb_get_seq(entry)
         IN  IF \E i \in 1 .. Len(seq) : seq[i] = self
             THEN Fail(m, "inst_new(): duplicate instance!")
             ELSE [m EXCEPT !.inst_c2p =
                       MapSet(@, value, nb_mark_seq(Append(seq, self)))]

\* inst_c2p_remove with the slip of erasing the whole entry whenever the
\* instance is the head of the list, other instances following or not
inst_c2p_remove_erases_entry(m, p, self) ==
    IF p \notin DOMAIN m.inst_c2p
    THEN Fail(m, "inst_dealloc(): attempted to delete an unknown instance")
    ELSE LET seq == nb_get_seq(m.inst_c2p[p])
             hit == {i \in 1 .. Len(seq) : seq[i] = self}
         IN  IF hit = {}
             THEN Fail(m, "inst_dealloc(): attempted to delete an unknown instance")
             ELSE IF 1 \in hit
                  THEN [m EXCEPT !.inst_c2p = MapErase(@, p)]
                  ELSE LET i == CHOOSE i \in hit : TRUE
                       IN  [m EXCEPT !.inst_c2p =
                               MapSet(@, p, nb_mark_seq(SeqRemoveAt(seq, i)))]

\* a removal that turns a list with one remaining instance back into a direct
\* entry
inst_c2p_remove_collapses(m, p, self) ==
    IF p \notin DOMAIN m.inst_c2p
    THEN Fail(m, "inst_dealloc(): attempted to delete an unknown instance")
    ELSE LET seq == nb_get_seq(m.inst_c2p[p])
             hit == {i \in 1 .. Len(seq) : seq[i] = self}
         IN  IF hit = {}
             THEN Fail(m, "inst_dealloc(): attempted to delete an unknown instance")
             ELSE LET i == CHOOSE i \in hit : \A j \in hit : i <= j
                      rest == SeqRemoveAt(seq, i)
                  IN  IF rest = << >>
                      THEN [m EXCEPT !.inst_c2p = MapErase(@, p)]
                      ELSE IF Len(rest) = 1
                      THEN [m EXCEPT !.inst_c2p = MapSet(@, p, DirectEntry(rest[1]))]
                      ELSE [m EXCEPT !.inst_c2p = MapSet(@, p, nb_mark_seq(rest))]

\* inst_dealloc, lines 213-253: remove `self` from the entry of address p
inst_c2p_remove(m, p, self) ==
    IF p \notin DOMAIN m.inst_c2p
    THEN Fail(m, "inst_dealloc(): attempted to delete an unknown instance")
    ELSE LET entry == m.inst_c2p[p]
         IN  IF ~nb_is_seq(entry)
             THEN IF entry.list[1] = self
                  THEN [m EXCEPT !.inst_c2p = MapErase(@, p)]
                  ELSE Fail(m, "inst_dealloc(): attempted to delete an unknown instance")
             ELSE LET seq == nb_get_seq(entry)
                      hit == {i \in 1 .. Len(seq) : seq[i] = self}
                  IN  IF hit = {}
                      THEN Fail(m, "inst_dealloc(): attempted to delete an unknown instance")
                      ELSE LET i == CHOOSE i \in hit : \A j \in hit : i <= j
                           IN  IF i = 1 /\ Len(seq) = 1
                               THEN [m EXCEPT !.inst_c2p = MapErase(@, p)]
                               ELSE [m EXCEPT !.inst_c2p =
                                       MapSet(@, p, nb_mark_seq(SeqRemoveAt(seq, i)))]


(***************************************************************************)
(* Instance allocation.                                                    *)
(***************************************************************************)
\* an allocation that hands out the wrapper with the destruct flag set
inst_new_impl_destruct_set(m, tp, value, self) ==
    IF self = NULL THEN Emit(m, Ev("PyErr_NoMemory", NULL, NULL))
    ELSE
    LET payload == IF value = NULL THEN InternalAddr(self) ELSE value
        obj     == [tp |-> tp, ptr |-> payload, internal |-> (value = NULL),
                    ready |-> FALSE, destruct |-> TRUE, cpp_delete |-> FALSE,
                    clear_keep_alive |-> FALSE, refcnt |-> 1]
    IN  Only({inst_c2p_insert(m1, payload, self) :
                  m1 \in {[m EXCEPT !.inst[self] = obj]}})

\* inst_new_impl(tp, value): `self` is the block PyObject_Malloc /
\* PyType_GenericAlloc returned, NULL when there is no memory (the caller gets
\* NULL then).  value = NULL asks for co-located storage.
inst_new_impl(m, tp, value, self) ==
    IF self = NULL THEN Emit(m, Ev("PyErr_NoMemory", NULL, NULL))
    ELSE
    LET payload == IF value = NULL THEN InternalAddr(self) ELSE value
        obj     == [tp |-> tp, ptr |-> payload, internal |-> (value = NULL),
                    ready |-> FALSE, destruct |-> FALSE, cpp_delete |-> FALSE,
                    clear_keep_alive |-> FALSE, refcnt |-> 1]
    IN  Only({inst_c2p_insert(m1, payload, self) :
                  m1 \in {[m EXCEPT !.inst[self] = obj]}})

(***************************************************************************)
(* Instance deallocation and reference counting.                           *)
(***************************************************************************)
\* release callbacks that native code registers
Callbacks == {"cb1", "cb2"}

RECURSIVE inst_dealloc(_, _)
RECURSIVE Py_DECREF(_, _)
RECURSIVE release_keep_alive(_, _, _)
RECURSIVE dealloc_run(_, _, _)

\* inst_dealloc, lines 168-171: clear the __dict__ of a type with dynamic
\* attributes
dealloc_dict(m, self) ==
    IF "has_dynamic_attr" \in nb_type_data(m.inst[self].tp).flags
    THEN Emit(m, Ev("dict", self, NULL))
    ELSE m

\* inst_dealloc, lines 176-182: the destruction step ("destruct"); it calls
\* the type's destructor function ("t_destruct") when the type has one, a
\* trivially destructible type has none
dealloc_destruct(m, self) ==
    LET t == nb_type_data(m.inst[self].tp)
    IN  IF m.inst[self].destruct
        THEN IF "is_destructible" \notin t.flags
             THEN Fail(m, "inst_dealloc(): destructor of a non-destructible type")
             ELSE IF "has_destruct" \in t.flags
                  THEN Emit(Emit(m, Ev("destruct", self, inst_ptr(m, self))),
                            Ev("t_destruct", self, inst_ptr(m, self)))
                  ELSE Emit(m, Ev("destruct", self, inst_ptr(m, self)))
        ELSE m

\* inst_dealloc, lines 184-189: operator delete
dealloc_delete(m, self) ==
    IF m.inst[self].cpp_delete
    THEN Emit(m, Ev("delete", self, inst_ptr(m, self)))
    ELSE m

\* a release that drops the patient references and calls no callback
release_node_skips_callbacks(m, self, c) ==
    IF c.callback # NoCallback
    THEN m
    ELSE Py_DECREF(Emit(m, EvNode("decref", self, c)), c.payload)

\* inst_dealloc, lines 201-209: a node with a callback calls it, a node
\* without drops the reference to the patient
release_node(m, self, c) ==
    IF c.callback # NoCallback
    THEN Emit(m, EvNode("callback", self, c))
    ELSE Py_DECREF(Emit(m, EvNode("decref", self, c)), c.payload)

\* inst_dealloc, lines 198-210: walk the list that was taken out of the table
release_keep_alive(m, self, s) ==
    IF Fatal(m) \/ s = << >> THEN m
    ELSE Only({release_keep_alive(n, self, Tail(s)) :
                   n \in {release_node(m, self, Head(s))}})

\* inst_dealloc, lines 191-211
dealloc_keep_alive(m, self) ==
    IF m.inst[self].clear_keep_alive
    THEN IF self \notin DOMAIN m.keep_alive
         THEN Fail(m, "inst_dealloc(): inconsistent keep_alive information")
         ELSE Only({release_keep_alive(n, self, m.keep_alive[self]) :
                        n \in {[m EXCEPT !.keep_alive = MapErase(@, self)]}})
    ELSE m

\* inst_dealloc, lines 213-253
dealloc_unmap(m, self) ==
    Only({IF Fatal(n) THEN n ELSE Emit(n, Ev("unmap", self, inst_ptr(m, self))) :
              n \in {inst_c2p_remove(m, inst_ptr(m, self), self)}})

\* inst_dealloc, lines 255-258: PyObject_Free / tp_free
dealloc_free(m, self) ==
    Emit([m EXCEPT !.inst[self] = NoInst], Ev("free", self, NULL))

\* an order that frees the payload before it destructs it
DeallocSteps_delete_before_destruct ==
    <<"dict", "delete", "destruct", "keep_alive", "unmap", "free">>

\* the steps of inst_dealloc, in the order of the function body
DeallocSteps == <<"dict", "destruct", "delete", "keep_alive", "unmap", "free">>

dealloc_step(pc, m, self) ==
    CASE pc = "dict"       -> dealloc_dict(m, self)
      [] pc = "destruct"   -> dealloc_destruct(m, self)
      [] pc = "delete"     -> dealloc_delete(m, self)
      [] pc = "keep_alive" -> dealloc_keep_alive(m, self)
      [] pc = "unmap"      -> dealloc_unmap(m, self)
      [] pc = "free"       -> dealloc_free(m, self)

\* one step after the other; a failed check() aborts
dealloc_run(m, self, steps) ==
    IF Fatal(m) \/ steps = << >> THEN m
    ELSE Only({dealloc_run(n, self, Tail(steps)) :
                   n \in {dealloc_step(Head(steps), m, self)}})

\* static void inst_dealloc(PyObject *self)
inst_dealloc(m, self) ==
    Only({dealloc_run(n, self, DeallocSteps) :
              n \in {Emit(m, Ev("dealloc", self, inst_ptr(m, self)))}})

\* Py_DECREF on a wrapper: the last reference runs tp_dealloc
Py_DECREF(m, w) ==
    IF m.inst[w].refcnt > 1
    THEN [m EXCEPT !.inst[w].refcnt = @ - 1]
    ELSE Only({inst_dealloc(n, w) : n \in {[m EXCEPT !.inst[w].refcnt = 0]}})

Py_INCREF(m, w) == [m EXCEPT !.inst[w].refcnt = @ + 1]

(***************************************************************************)
(* keep_alive.                                                             *)
(***************************************************************************)
\* the list of a nurse (nullptr / absent: the empty list)
KeepAliveList(m, nurse) ==
    IF nurse \in DOMAIN m.keep_alive THEN m.keep_alive[nurse] ELSE <<>>

\* a keep_alive that compares the patient with the head of the list only
keep_alive_patient_checks_head_only(m, nurse, patient) ==
    IF patient = NULL \/ nurse = NULL THEN m
    ELSE LET s == KeepAliveList(m, nurse)
         IN  IF s # << >> /\ s[1].payload = patient /\ s[1].callback = NoCallback
             THEN m
             ELSE Py_INCREF(
                    [m EXCEPT !.keep_alive =
                                  MapSet(@, nurse, Append(s, WeakrefSeq(patient, NoCallback))),
                              !.inst[nurse].clear_keep_alive = TRUE],
                    patient)

\* a keep_alive that links the patient without taking a reference to it
keep_alive_patient_borrows(m, nurse, patient) ==
    IF patient = NULL \/ nurse = NULL THEN m
    ELSE LET s == KeepAliveList(m, nurse)
         IN  IF \E i \in 1 .. Len(s) :
                    s[i].payload = patient /\ s[i].callback = NoCallback
             THEN m
             ELSE [m EXCEPT !.keep_alive =
                                MapSet(@, nurse, Append(s, WeakrefSeq(patient, NoCallback))),
                            !.inst[nurse].clear_keep_alive = TRUE]

\* void keep_alive(PyObject *nurse, PyObject *patient), nurse a nanobind
\* instance (lines 1037-1060)
keep_alive_patient(m, nurse, patient) ==
    IF patient = NULL \/ nurse = NULL THEN m
    ELSE LET s == KeepAliveList(m, nurse)
         IN  IF \E i \in 1 .. Len(s) :
                    s[i].payload = patient /\ s[i].callback = NoCallback
             THEN m
             ELSE Py_INCREF(
                    [m EXCEPT !.keep_alive =
                                  MapSet(@, nurse, Append(s, WeakrefSeq(patient, NoCallback))),
                              !.inst[nurse].clear_keep_alive = TRUE],
                    patient)

\* a keep_alive that puts a callback node at the end of the list
keep_alive_callback_appends(m, nurse, payload, callback) ==
    LET s == KeepAliveList(m, nurse)
    IN  [m EXCEPT !.keep_alive = MapSet(@, nurse, Append(s, WeakrefSeq(payload, callback))),
                  !.inst[nurse].clear_keep_alive = TRUE]

\* void keep_alive(PyObject *nurse, void *payload, void (*callback)(void *)),
\* nurse a nanobind instance (lines 1085-1096)
keep_alive_callback(m, nurse, payload, callback) ==
    LET s == KeepAliveList(m, nurse)
    IN  [m EXCEPT !.keep_alive = MapSet(@, nurse, <<WeakrefSeq(payload, callback)>> \o s),
                  !.inst[nurse].clear_keep_alive = TRUE]

(***************************************************************************)
(* The return value policy engine.                                         *)
(***************************************************************************)
\* Py_None, as a returned object
Py_None == -1

\* What the surroundings of a call decide:
\*   self_py : cleanup->self(), the receiver of the running method or NULL
\*   alloc   : the block the allocator hands out if the call allocates
\*   throws  : the type's copy / move constructor throws
\*   shared  : keep_shared_from_this_alive() finds a live shared_ptr
Env(self_py, alloc, throws, shared) ==
    [self_py |-> self_py, alloc |-> alloc, throws |-> throws, shared |-> shared]

\* what a put returns: the machine, the object (NULL: failure) and *is_new
Ret(m, o, is_new) == [m |-> m, o |-> o, is_new |-> is_new]

\* nb_type_put_common, lines 1175-1177: the ownership flags of the new
\* wrapper under the policy that was resolved
\* flags that let every new wrapper run the destructor
put_flags_always_destruct(m, self, rvp) ==
    [m EXCEPT !.inst[self].destruct = TRUE,
              !.inst[self].cpp_delete = (rvp = "take_ownership"),
              !.inst[self].ready = TRUE]

put_flags(m, self, rvp) ==
    [m EXCEPT !.inst[self].destruct =
                  (rvp # "reference" /\ rvp # "reference_internal"),
              !.inst[self].cpp_delete = (rvp = "take_ownership"),
              !.inst[self].ready = TRUE]

\* a policy engine that asks for no self object
self_never_missing(rvp, env) == FALSE

\* nb_type_put_common, lines 1107-1109: reference_internal without a self
\* object in the cleanup list
self_missing(rvp, env) == rvp = "reference_internal" /\ env.self_py = NULL

\* a policy engine that keeps the requested policy of an intrusive type
intrusive_policy_as_requested(t, rvp) == rvp

\* nb_type_put_common, lines 1111-1113
intrusive_policy(t, rvp) ==
    IF "intrusive_ptr" \in t.flags THEN "take_ownership" ELSE rvp

\* a policy engine that never takes a share
share_never_taken(t, store_in_obj, env) == FALSE

\* nb_type_put_common, lines 1169-1170: keep_shared_from_this_alive(inst)
\* yields env.shared, whether a shared_ptr to the object exists
share_taken(t, store_in_obj, env) ==
    "has_shared_from_this" \in t.flags /\ ~store_in_obj /\ env.shared

\* static PyObject *nb_type_put_common(value, t, rvp, cleanup, is_new);
\* t is given by its type object
nb_type_put_common(m, value, tp, rvp0, env) ==
    IF self_missing(rvp0, env)
    THEN Ret(m, NULL, FALSE)
    ELSE
    LET t            == nb_type_data(tp)
        intrusive    == "intrusive_ptr" \in t.flags
        rvp1         == intrusive_policy(t, rvp0)
        store_in_obj == rvp1 = "copy" \/ rvp1 = "move"
        self         == env.alloc
    IN  Only({
    LET new_value    == IF store_in_obj THEN InternalAddr(self) ELSE value
        can_move     == "is_move_constructible" \in t.flags
        can_copy     == "is_copy_constructible" \in t.flags
        \* rv_policy::move, lines 1123-1144
        move_throws  == rvp1 = "move" /\ can_move /\ "has_move" \in t.flags /\ env.throws
        move_fatal   == rvp1 = "move" /\ ~can_move /\ ~can_copy
        rvp2         == IF rvp1 = "move" /\ ~can_move THEN "copy" ELSE rvp1
        \* rv_policy::copy, lines 1146-1161
        copy_fatal   == rvp2 = "copy" /\ ~can_copy
        copy_throws  == rvp2 = "copy" /\ can_copy /\ "has_copy" \in t.flags /\ env.throws
        \* lines 1169-1173
        share        == share_taken(t, store_in_obj, env)
        rvp3         == IF share THEN "reference" ELSE rvp2
        \* the constructor that fills the new storage: t->move or the
        \* memcpy/memset pair (lines 1125-1133), t->copy or memcpy (1151-1160)
        built        == IF rvp2 = "move" THEN Emit(m1, Ev("move", self, value))
                        ELSE IF rvp2 = "copy" THEN Emit(m1, Ev("copy", self, value))
                        ELSE m1
        m2           == IF self = NULL THEN m1 ELSE put_flags(built, self, rvp3)
        m3           == IF rvp3 = "reference_internal"
                        THEN keep_alive_patient(m2, self, env.self_py)
                        ELSE m2
        m4           == IF intrusive
                        THEN Emit(m3, Ev("set_self_py", self, new_value))
                        ELSE m3
    IN  IF self = NULL \/ Fatal(m1) THEN Ret(m1, NULL, FALSE)
        ELSE IF move_fatal
        THEN Ret(Fail(m1, "nb_type_put(): neither copy- nor move-constructible"),
                 NULL, FALSE)
        ELSE IF move_throws THEN Ret(Py_DECREF(m1, self), NULL, FALSE)
        ELSE IF copy_fatal
        THEN Ret(Fail(m1, "nb_type_put(): not copy-constructible"), NULL, FALSE)
        ELSE IF copy_throws THEN Ret(Py_DECREF(m1, self), NULL, FALSE)
        ELSE Ret(m4, self, ~share)
    : m1 \in {inst_new_impl(m, tp, IF store_in_obj THEN NULL ELSE value, self)}})

\* a walk that compares the exact type only and never asks for a subtype
RECURSIVE put_find_exact_type_only(_, _, _, _)
put_find_exact_type_only(m, cpp_type, seq, i) ==
    LET tp == m.inst[seq[i]].tp
        td == m.type_c2p[cpp_type]
    IN  IF nb_type_data(tp).type = cpp_type THEN seq[i]
        ELSE IF td = NoType THEN NULL
        ELSE IF i = Len(seq) THEN Py_None
        ELSE put_find_exact_type_only(m, cpp_type, seq, i + 1)

\* a walk that stops after the first instance of the list
put_find_head_only(m, cpp_type, seq, i) ==
    LET tp == m.inst[seq[i]].tp
        td == m.type_c2p[cpp_type]
    IN  IF nb_type_data(tp).type = cpp_type THEN seq[i]
        ELSE IF td = NoType THEN NULL
        ELSE IF PyType_IsSubtype(tp, td) THEN seq[i]
        ELSE Py_None

\* nb_type_put, lines 1232-1252: walk the instances registered at the address.
\* Yields the instance to return, NULL when the type lookup failed inside the
\* loop, and Py_None (no object of the map) when the walk found no match.
RECURSIVE put_find(_, _, _, _)
put_find(m, cpp_type, seq, i) ==
    LET tp == m.inst[seq[i]].tp
        td == m.type_c2p[cpp_type]
    IN  IF nb_type_data(tp).type = cpp_type THEN seq[i]
        ELSE IF td = NoType THEN NULL
        ELSE IF PyType_IsSubtype(tp, td) THEN seq[i]
        ELSE IF i = Len(seq) THEN Py_None
        ELSE put_find(m, cpp_type, seq, i + 1)

\* an nb_type_put that consults the instance map under every policy, copy
\* included
nb_type_put_copy_consults_map(m, cpp_type, value, rvp, env) ==
    IF value = NULL THEN Ret(m, Py_None, FALSE)
    ELSE
    LET registered == value \in DOMAIN m.inst_c2p
        found == IF registered
                 THEN put_find(m, cpp_type, nb_get_seq(m.inst_c2p[value]), 1)
                 ELSE Py_None
        td    == m.type_c2p[cpp_type]
    IN  IF registered /\ found = NULL THEN Ret(m, NULL, FALSE)
        ELSE IF registered /\ found # Py_None
        THEN Ret(Py_INCREF(m, found), found, FALSE)
        ELSE IF ~registered /\ rvp = "none" THEN Ret(m, NULL, FALSE)
        ELSE IF td = NoType THEN Ret(m, NULL, FALSE)
        ELSE nb_type_put_common(m, value, td, rvp, env)

\* PyObject *nb_type_put(cpp_type, value, rvp, cleanup, is_new)
nb_type_put(m, cpp_type, value, rvp, env) ==
    IF value = NULL THEN Ret(m, Py_None, FALSE)
    ELSE
    LET registered == value \in DOMAIN m.inst_c2p
        found == IF rvp # "copy" /\ registered
                 THEN put_find(m, cpp_type, nb_get_seq(m.inst_c2p[value]), 1)
                 ELSE Py_None
        td    == m.type_c2p[cpp_type]
    IN  IF rvp # "copy" /\ registered /\ found = NULL THEN Ret(m, NULL, FALSE)
        ELSE IF rvp # "copy" /\ registered /\ found # Py_None
        THEN Ret(Py_INCREF(m, found), found, FALSE)
        ELSE IF rvp # "copy" /\ ~registered /\ rvp = "none" THEN Ret(m, NULL, FALSE)
        ELSE IF td = NoType THEN Ret(m, NULL, FALSE)
        ELSE nb_type_put_common(m, value, td, rvp, env)

\* Variant of nb_type_put_unique_finalize without the status checks
nb_type_put_unique_finalize_unchecked(m, o, cpp_delete, is_new) ==
    IF cpp_delete
    THEN [m EXCEPT !.inst[o].ready = TRUE, !.inst[o].destruct = TRUE,
                   !.inst[o].cpp_delete = TRUE]
    ELSE [m EXCEPT !.inst[o].ready = TRUE]

\* nb_type_put_unique_finalize(o, cpp_type, cpp_delete, is_new)
nb_type_put_unique_finalize(m, o, cpp_delete, is_new) ==
    IF ~(cpp_delete \/ ~is_new)
    THEN Fail(m, "nb_type_put_unique(): ownership status has become corrupted")
    ELSE IF cpp_delete
    THEN IF m.inst[o].ready = is_new /\ m.inst[o].destruct = is_new
            /\ m.inst[o].cpp_delete = is_new
         THEN [m EXCEPT !.inst[o].ready = TRUE, !.inst[o].destruct = TRUE,
                        !.inst[o].cpp_delete = TRUE]
         ELSE Fail(m, "nb_type_put_unique(): unexpected status flags")
    ELSE IF ~m.inst[o].ready
         THEN [m EXCEPT !.inst[o].ready = TRUE]
         ELSE Fail(m, "nb_type_put_unique(): ownership status has become corrupted")

\* PyObject *nb_type_put_unique(cpp_type, value, cleanup, cpp_delete)
nb_type_put_unique(m, cpp_type, value, cpp_delete, env) ==
    LET policy == IF cpp_delete THEN "take_ownership" ELSE "none"
    IN  Only({IF r.o # NULL /\ ~Fatal(r.m)
              THEN Ret(nb_type_put_unique_finalize(r.m, r.o, cpp_delete, r.is_new),
                       r.o, r.is_new)
              ELSE r
              : r \in {nb_type_put(m, cpp_type, value, policy, env)}})

\* Variant of nb_type_relinquish_ownership that leaves the wrapper ready
nb_type_relinquish_ownership_stays_ready(m, o, cpp_delete) ==
    IF ~m.inst[o].ready
    THEN Ret(Fail(m, "nb_relinquish_ownership(): ownership status has become corrupted"),
             NULL, FALSE)
    ELSE IF cpp_delete /\
            (~m.inst[o].cpp_delete \/ ~m.inst[o].destruct \/ m.inst[o].internal)
    THEN Ret(m, NULL, FALSE)
    ELSE IF cpp_delete
    THEN Ret([m EXCEPT !.inst[o].cpp_delete = FALSE, !.inst[o].destruct = FALSE],
             o, FALSE)
    ELSE Ret(m, o, FALSE)

\* Variant of nb_type_relinquish_ownership without the ownership test
nb_type_relinquish_ownership_untested(m, o, cpp_delete) ==
    IF ~m.inst[o].ready
    THEN Ret(Fail(m, "nb_relinquish_ownership(): ownership status has become corrupted"),
             NULL, FALSE)
    ELSE IF cpp_delete
    THEN Ret([m EXCEPT !.inst[o].cpp_delete = FALSE, !.inst[o].destruct = FALSE,
                       !.inst[o].ready = FALSE], o, FALSE)
    ELSE Ret([m EXCEPT !.inst[o].ready = FALSE], o, FALSE)

\* Variant of nb_type_relinquish_ownership that leaves the destruct flag set
nb_type_relinquish_ownership_keeps_destruct(m, o, cpp_delete) ==
    IF ~m.inst[o].ready
    THEN Ret(Fail(m, "nb_relinquish_ownership(): ownership status has become corrupted"),
             NULL, FALSE)
    ELSE IF cpp_delete /\
            (~m.inst[o].cpp_delete \/ ~m.inst[o].destruct \/ m.inst[o].internal)
    THEN Ret(m, NULL, FALSE)
    ELSE IF cpp_delete
    THEN Ret([m EXCEPT !.inst[o].cpp_delete = FALSE, !.inst[o].ready = FALSE],
             o, FALSE)
    ELSE Ret([m EXCEPT !.inst[o].ready = FALSE], o, FALSE)

\* void nb_type_relinquish_ownership(PyObject *o, bool cpp_delete); the
\* returned object is NULL when next_overload was thrown
nb_type_relinquish_ownership(m, o, cpp_delete) ==
    IF ~m.inst[o].ready
    THEN Ret(Fail(m, "nb_relinquish_ownership(): ownership status has become corrupted"),
             NULL, FALSE)
    ELSE IF cpp_delete /\
            (~m.inst[o].cpp_delete \/ ~m.inst[o].destruct \/ m.inst[o].internal)
    THEN Ret(m, NULL, FALSE)
    ELSE IF cpp_delete
    THEN Ret([m EXCEPT !.inst[o].cpp_delete = FALSE, !.inst[o].destruct = FALSE,
                       !.inst[o].ready = FALSE], o, FALSE)
    ELSE Ret([m EXCEPT !.inst[o].ready = FALSE], o, FALSE)

\* PyObject *nb_inst_alloc(PyTypeObject *t)
nb_inst_alloc(m, tp, self) == inst_new_impl(m, tp, NULL, self)

\* PyObject *nb_inst_wrap(PyTypeObject *t, void *ptr)
nb_inst_wrap(m, tp, ptr, self) == inst_new_impl(m, tp, ptr, self)

\* void nb_inst_set_state(PyObject *o, bool ready, bool destruct)
nb_inst_set_state(m, o, ready, destruct) ==
    [m EXCEPT !.inst[o].ready = ready, !.inst[o].destruct = destruct,
              !.inst[o].cpp_delete = (destruct /\ ~m.inst[o].internal)]

(***************************************************************************)
(* Deallocation that re-enters the bridge.  The destructor of the type     *)
(* (t->destruct, line 181) and a release callback (c->callback, line 204)  *)
(* are native code of the binding; either may call back into the bridge    *)
(* while inst_dealloc of the wrapper is on the stack.                      *)
(***************************************************************************)
\* what the native code does when it re-enters:
\*   at    : "destruct" (inside the destructor) or "callback" (inside the
\*           release callback `cb`)
\*   kind  : "put"    nb_type_put(type, value, reference)
\*           "decref" the last reference to the wrapper `other` is dropped
\*           "link"   keep_alive(other, value, type): the callback `type` is
\*                    registered on the nurse `other`
\*   alloc : the block the allocator hands out if the put allocates
Hook(at, cb, kind, type, value, other, alloc) ==
    [at |-> at, cb |-> cb, kind |-> kind, type |-> type, value |-> value,
     other |-> other, alloc |-> alloc]

\* the nested call; the object a nested put returned is logged
nested(m, hook) ==
    IF hook.kind = "put"
    THEN Only({Emit(r.m, Ev("nested_put", r.o, hook.value)) :
                   r \in {nb_type_put(m, hook.type, hook.value, "reference",
                                      Env(NULL, hook.alloc, FALSE, FALSE))}})
    ELSE IF hook.kind = "link"
    THEN keep_alive_callback(Emit(m, Ev("nested_link", hook.other, hook.value)),
                             hook.other, hook.value, hook.type)
    ELSE IF IsLive(m, hook.other)
         THEN Py_DECREF(Emit(m, Ev("nested_decref", hook.other, NULL)), hook.other)
         ELSE m

\* the object the nested put returned, NULL if none was made
NestedRet(m) ==
    LET hits == {i \in 1 .. Len(m.log) : m.log[i].ev = "nested_put"}
    IN  IF hits = {} THEN NULL
        ELSE m.log[CHOOSE i \in hits : \A j \in hits : j <= i].w

\* inst_dealloc, lines 176-182, with the body of t->destruct(p)
dealloc_destruct_reentrant(m, self, hook) ==
    LET t == nb_type_data(m.inst[self].tp)
    IN  Only({IF ~Fatal(n) /\ hook.at = "destruct" /\ m.inst[self].destruct
                 /\ "has_destruct" \in t.flags
              THEN nested(n, hook)
              ELSE n
              : n \in {dealloc_destruct(m, self)}})

\* inst_dealloc, lines 201-209, with the body of c->callback(c->payload)
release_node_reentrant(m, self, c, hook) ==
    Only({IF ~Fatal(n) /\ hook.at = "callback" /\ c.callback = hook.cb
          THEN nested(n, hook)
          ELSE n
          : n \in {release_node(m, self, c)}})

RECURSIVE release_keep_alive_reentrant(_, _, _, _)
release_keep_alive_reentrant(m, self, s, hook) ==
    IF Fatal(m) \/ s = << >> THEN m
    ELSE Only({release_keep_alive_reentrant(n, self, Tail(s), hook) :
                   n \in {release_node_reentrant(m, self, Head(s), hook)}})

\* inst_dealloc, lines 191-211
dealloc_keep_alive_reentrant(m, self, hook) ==
    IF m.inst[self].clear_keep_alive
    THEN IF self \notin DOMAIN m.keep_alive
         THEN Fail(m, "inst_dealloc(): inconsistent keep_alive information")
         ELSE Only({release_keep_alive_reentrant(n, self, m.keep_alive[self], hook) :
                        n \in {[m EXCEPT !.keep_alive = MapErase(@, self)]}})
    ELSE m

\* a removal that writes back the entry as it was read before the destructor
\* and the callbacks ran, less `self`
dealloc_unmap_stale_entry(m0, m, self) ==
    Only({IF Fatal(n) THEN n
          ELSE Emit([m EXCEPT !.inst_c2p =
                        [p \in (DOMAIN m.inst_c2p) \cap (DOMAIN n.inst_c2p) |->
                            IF p = inst_ptr(m0, self) THEN n.inst_c2p[p]
                            ELSE m.inst_c2p[p]]],
                    Ev("unmap", self, inst_ptr(m, self))) :
              n \in {inst_c2p_remove(m0, inst_ptr(m0, self), self)}})

dealloc_step_reentrant_stale_entry(pc, m0, m, self, hook) ==
    CASE pc = "destruct"   -> dealloc_destruct_reentrant(m, self, hook)
      [] pc = "keep_alive" -> dealloc_keep_alive_reentrant(m, self, hook)
      [] pc = "unmap"      -> dealloc_unmap_stale_entry(m0, m, self)
      [] OTHER             -> dealloc_step(pc, m, self)

\* the steps of inst_dealloc; m0 is the machine when inst_dealloc was entered
dealloc_step_reentrant(pc, m0, m, self, hook) ==
    CASE pc = "destruct"   -> dealloc_destruct_reentrant(m, self, hook)
      [] pc = "keep_alive" -> dealloc_keep_alive_reentrant(m, self, hook)
      [] OTHER             -> dealloc_step(pc, m, self)

RECURSIVE dealloc_run_reentrant(_, _, _, _, _)
dealloc_run_reentrant(m0, m, self, steps, hook) ==
    IF Fatal(m) \/ steps = << >> THEN m
    ELSE Only({dealloc_run_reentrant(m0, n, self, Tail(steps), hook) :
                   n \in {dealloc_step_reentrant(Head(steps), m0, m, self, hook)}})

\* inst_dealloc(self) when the native code of the type re-enters as `hook`
inst_dealloc_reentrant(m, self, hook) ==
    Only({dealloc_run_reentrant(n, n, self, DeallocSteps, hook) :
              n \in {Emit(m, Ev("dealloc", self, inst_ptr(m, self)))}})

\* Py_DECREF on the last reference to `w`
Py_DECREF_reentrant(m, w, hook) ==
    Only({inst_dealloc_reentrant(n, w, hook) : n \in {[m EXCEPT !.inst[w].refcnt = 0]}})

\* an nb_inst_destruct that calls the destructor without asking whether the
\* type is destructible
nb_inst_destruct_unchecked(m, o) ==
    LET t == nb_type_data(m.inst[o].tp)
    IN  IF m.inst[o].destruct
        THEN [Emit(m, Ev("t_destruct", o, inst_ptr(m, o)))
                 EXCEPT !.inst[o].destruct = FALSE, !.inst[o].ready = FALSE]
        ELSE [m EXCEPT !.inst[o].ready = FALSE]

\* an nb_inst_destruct that leaves the destruct flag as it was
nb_inst_destruct_keeps_flag(m, o) ==
    LET t == nb_type_data(m.inst[o].tp)
    IN  IF m.inst[o].destruct
        THEN IF "is_destructible" \notin t.flags
             THEN Fail(m, "nb_inst_destruct(): destructor of a non-destructible type")
             ELSE Only({[n EXCEPT !.inst[o].ready = FALSE] :
                       n \in {IF "has_destruct" \in t.flags
                              THEN Emit(m, Ev("t_destruct", o, inst_ptr(m, o)))
                              ELSE m}})
        ELSE [m EXCEPT !.inst[o].ready = FALSE]

\* void nb_inst_destruct(PyObject *o)
nb_inst_destruct(m, o) ==
    LET t == nb_type_data(m.inst[o].tp)
    IN  IF m.inst[o].destruct
        THEN IF "is_destructible" \notin t.flags
             THEN Fail(m, "nb_inst_destruct(): destructor of a non-destructible type")
             ELSE Only({[n EXCEPT !.inst[o].destruct = FALSE, !.inst[o].ready = FALSE] :
                       n \in {IF "has_destruct" \in t.flags
                              THEN Emit(m, Ev("t_destruct", o, inst_ptr(m, o)))
                              ELSE m}})
        ELSE [m EXCEPT !.inst[o].ready = FALSE]

(***************************************************************************)
(* State machine: one action per entry point.                              *)
(***************************************************************************)
\* the machine an entry point starts from; the log holds one call's effects
M == [inst |-> inst, inst_c2p |-> inst_c2p, type_c2p |-> type_c2p,
      keep_alive |-> keep_alive, log |-> <<>>, fatal |-> fatal]

\* the record of a call: entry point, arguments, what it returned
Call(op, type, value, rvp, arg, flag, self_py, thrown, ret, is_new) ==
    [op |-> op, type |-> type, value |-> value, rvp |-> rvp, arg |-> arg,
     flag |-> flag, self_py |-> self_py, thrown |-> thrown, ret |-> ret,
     is_new |-> is_new]

\* a put whose copy / move constructor threw has dropped the half-built
\* wrapper again (nb_type_put_common, lines 1128-1131 and 1154-1157)
Thrown(m) == \E i \in 1 .. Len(m.log) : m.log[i].ev = "dealloc"

NoCall == Call("idle", NoType, NULL, "none", NULL, FALSE, NULL, FALSE, NULL, FALSE)

Commit(m, c) ==
    /\ inst' = m.inst
    /\ inst_c2p' = m.inst_c2p
    /\ type_c2p' = m.type_c2p
    /\ keep_alive' = m.keep_alive
    /\ log' = m.log
    /\ fatal' = m.fatal
    /\ call' = c
    /\ UNCHANGED <<nb_types, nb_type_dict, tp_dict, nb_static_property_enabled>>

Live == {w \in Inst : inst[w].tp # NoType}

\* references to w that keep_alive lists hold
EdgeRefs(w) ==
    LET RECURSIVE count(_, _)
        count(s, i) == IF i > Len(s) THEN 0
                       ELSE (IF s[i].callback = NoCallback /\ s[i].payload = w
                             THEN 1 ELSE 0) + count(s, i + 1)
        RECURSIVE sum(_)
        sum(ns) == IF ns = {} THEN 0
                   ELSE LET n == CHOOSE n \in ns : TRUE
                        IN  count(keep_alive[n], 1) + sum(ns \ {n})
    IN  sum(DOMAIN keep_alive)

\* the model's bounds hold after the call and the allocator had a block
Bounded(m) ==
    /\ \A w \in Inst : m.inst[w].refcnt <= MaxRef
    /\ \A n \in DOMAIN m.keep_alive : Len(m.keep_alive[n]) <= MaxEdges
    /\ \A i \in 1 .. Len(m.log) : m.log[i].ev # "PyErr_NoMemory"

\* the block the allocator returns: the lowest free one, NULL when the heap
\* is exhausted
AllocChoice ==
    IF FreeInst(M) = {} THEN {NULL}
    ELSE {CHOOSE w \in FreeInst(M) : \A v \in FreeInst(M) : w <= v}

\* addresses native code can pass, among `values`: native objects and the
\* payloads of the wrappers
ValueChoice(values) == values \cap (ExtAddr \cup {inst[w].ptr : w \in Live})

\* The bridge is entered by one call at a time (the host runtime serializes
\* entry into native code): an entry point starts when no call is pending and
\* the process has not aborted.
Running == fatal = NoError /\ call = NoCall

\* the caller takes the result of the pending call
Return ==
    /\ call # NoCall
    /\ fatal = NoError
    /\ call' = NoCall
    /\ log' = << >>
    /\ UNCHANGED <<inst, inst_c2p, type_c2p, keep_alive, nb_types, nb_type_dict,
                   tp_dict, nb_static_property_enabled, fatal>>

Put(types, values, policies, selfs, outcomes) ==
    \E cpp_type \in types, value \in ValueChoice(values), rvp \in policies,
       self_py \in (Live \cap selfs) \cup {NULL}, a \in AllocChoice,
       throws \in outcomes :
        \E r \in {nb_type_put(M, cpp_type, value, rvp, Env(self_py, a, throws, FALSE))} :
            /\ Running
            /\ Bounded(r.m)
            /\ Commit(r.m, Call("put", cpp_type, value, rvp, NULL, FALSE, self_py,
                                Thrown(r.m), r.o, r.is_new))

\* nb_type_put for a type derived from enable_shared_from_this; `shared` is
\* whether native code holds a shared_ptr to the object
PutShared(types, values, policies, shareds) ==
    \E cpp_type \in types, value \in ValueChoice(values), rvp \in policies,
       a \in AllocChoice, shared \in shareds :
        \E r \in {nb_type_put(M, cpp_type, value, rvp, Env(NULL, a, FALSE, shared))} :
            /\ Running
            /\ Bounded(r.m)
            /\ Commit(r.m, Call("put", cpp_type, value, rvp, NULL, shared, NULL,
                                Thrown(r.m), r.o, r.is_new))

PutUnique(types, values) ==
    \E cpp_type \in types, value \in ValueChoice(values), cpp_delete \in BOOLEAN,
       a \in AllocChoice :
        \E r \in {nb_type_put_unique(M, cpp_type, value, cpp_delete,
                                     Env(NULL, a, FALSE, FALSE))} :
            /\ Running
            /\ Bounded(r.m)
            /\ Commit(r.m, Call("put_unique", cpp_type, value, "none", NULL,
                                cpp_delete, NULL, FALSE, r.o, r.is_new))

Relinquish ==
    \E o \in Live, cpp_delete \in BOOLEAN :
        \E r \in {nb_type_relinquish_ownership(M, o, cpp_delete)} :
            /\ Running
            /\ Commit(r.m, Call("relinquish_ownership", NoType, NULL, "none", o,
                                cpp_delete, NULL, FALSE, r.o, FALSE))

\* nb_type_relinquish_ownership called on the wrapper that the pending call
\* has just returned, before anything else happens to it
RelinquishReturned ==
    /\ call.op \in {"put_unique", "relinquish_ownership"}
    /\ call.ret \in Live
    /\ fatal = NoError
    /\ \E cpp_delete \in BOOLEAN :
          \E r \in {nb_type_relinquish_ownership(M, call.ret, cpp_delete)} :
              Commit(r.m, Call("relinquish_ownership", NoType, NULL, "none",
                              call.ret, cpp_delete, NULL, FALSE, r.o, FALSE))

\* nb_type_put_unique called for the payload of the wrapper that the pending
\* relinquish_ownership has just released: native code hands the object back
PutUniqueReturned(types) ==
    /\ call.op = "relinquish_ownership"
    /\ call.ret \in Live
    /\ fatal = NoError
    /\ \E cpp_type \in types, cpp_delete \in BOOLEAN, a \in AllocChoice :
          \E r \in {nb_type_put_unique(M, cpp_type, inst[call.ret].ptr, cpp_delete,
                                      Env(NULL, a, FALSE, FALSE))} :
              /\ Bounded(r.m)
              /\ Commit(r.m, Call("put_unique", cpp_type, inst[call.ret].ptr, "none",
                                  call.ret, cpp_delete, NULL, FALSE, r.o, r.is_new))

Alloc(tps) ==
    \E tp \in tps, a \in AllocChoice \ {NULL} :
        /\ Running
        /\ \E m1 \in {nb_inst_alloc(M, tp, a)} :
              Commit(m1, Call("alloc", tp, NULL, "none", NULL, FALSE, NULL, FALSE, a, TRUE))

Wrap(tps, values) ==
    \E tp \in tps, ptr \in ValueChoice(values), a \in AllocChoice \ {NULL} :
        /\ Running
        /\ \E m1 \in {nb_inst_wrap(M, tp, ptr, a)} :
              Commit(m1, Call("wrap", tp, ptr, "none", NULL, FALSE, NULL, FALSE, a, TRUE))

SetState(readys, destructs) ==
    \E o \in Live, ready \in readys, destruct \in destructs :
        /\ Running
        /\ \E m1 \in {nb_inst_set_state(M, o, ready, destruct)} :
              Commit(m1, Call("set_state", NoType, NULL, "none", o, destruct, NULL, ready,
                       NULL, FALSE))

\* the host runtime drops a reference it holds; the last one deallocates
Decref ==
    \E w \in Live :
        /\ Running
        /\ inst[w].refcnt > EdgeRefs(w)
        /\ \E m1 \in {Py_DECREF(M, w)} :
              Commit(m1, Call("decref", NoType, NULL, "none", w, FALSE, NULL, FALSE,
                              NULL, FALSE))

\* the last reference to `w` is dropped and the native code that
\* inst_dealloc calls, the destructor or the callback `cb`, re-enters the
\* bridge once: with a put for an address, or by dropping the last reference
\* to another wrapper
DecrefReentrant(types, values, cbs) ==
    \E w \in Live, at \in {"destruct", "callback"}, cb \in cbs,
       kind \in {"put", "decref"}, cpp_type \in types,
       value \in ValueChoice(values), other \in Live \cup {NULL}, a \in AllocChoice :
        /\ Running
        /\ inst[w].refcnt = 1
        /\ EdgeRefs(w) = 0
        /\ kind = "put" => other = NULL
        /\ kind = "decref" =>
               /\ other \in Live \ {w}
               /\ inst[other].refcnt = 1
               /\ EdgeRefs(other) = 0
        /\ at = "destruct" =>
               inst[w].destruct /\ "has_destruct" \in nb_type_data(inst[w].tp).flags
        /\ at = "callback" =>
               /\ inst[w].clear_keep_alive
               /\ w \in DOMAIN keep_alive
               /\ Cardinality({i \in 1 .. Len(keep_alive[w]) :
                                  keep_alive[w][i].callback = cb}) = 1
        /\ \E m1 \in {Py_DECREF_reentrant(M, w,
                          Hook(at, cb, kind, cpp_type, value, other, a))} :
              /\ Bounded(m1)
              /\ Commit(m1, Call("decref_reentrant", cpp_type, value, at, w,
                                 kind = "put", other, FALSE, NestedRet(m1), FALSE))

\* the last reference to `w` is dropped and the release callback `cb` of `w`
\* registers the callback `cb2` on `w`, the nurse that is being deallocated
DecrefRelinking(cbs, cbs2) ==
    \E w \in Live, cb \in cbs, cb2 \in cbs2 :
        /\ Running
        /\ inst[w].refcnt = 1
        /\ EdgeRefs(w) = 0
        /\ inst[w].clear_keep_alive
        /\ w \in DOMAIN keep_alive
        /\ Cardinality({i \in 1 .. Len(keep_alive[w]) :
                           keep_alive[w][i].callback = cb}) = 1
        /\ \E m1 \in {Py_DECREF_reentrant(M, w,
                          Hook("callback", cb, "link", cb2, inst[w].ptr, w, NULL))} :
              /\ Bounded(m1)
              /\ Commit(m1, Call("decref_reentrant", cb2, inst[w].ptr, "callback", w,
                                 FALSE, w, FALSE, NULL, FALSE))

\* nb_inst_destruct(o)
Destruct ==
    \E o \in Live :
        /\ Running
        /\ \E m1 \in {nb_inst_destruct(M, o)} :
              Commit(m1, Call("destruct", NoType, NULL, "none", o, inst[o].destruct,
                              NULL, FALSE, NULL, FALSE))

KeepAlive(nurses, patients) ==
    \E nurse \in Live \cap nurses, patient \in Live \cap patients :
        \E m1 \in {keep_alive_patient(M, nurse, patient)} :
            /\ Running
            /\ Bounded(m1)
            /\ Commit(m1, Call("keep_alive", NoType, patient, "none", nurse, FALSE,
                               NULL, FALSE, NULL, FALSE))

KeepAliveCallback(nurses, payloads, cbs) ==
    \E nurse \in Live \cap nurses, payload \in payloads, cb \in cbs :
        \E m1 \in {keep_alive_callback(M, nurse, payload, cb)} :
            /\ Running
            /\ Bounded(m1)
            /\ Commit(m1, Call("keep_alive_callback", cb, payload, "none", nurse,
                               FALSE, NULL, FALSE, NULL, FALSE))

(***************************************************************************)
(* The type registry: nb_type_new, nb_type_init, nb_type_dealloc,          *)
(* nb_type_lookup.                                                         *)
(***************************************************************************)
\* the part of the machine that the type functions read and write
TM == [type_c2p |-> type_c2p, nb_types |-> nb_types,
       nb_type_dict |-> nb_type_dict, fatal |-> fatal]

\* type_data of any type object, bound at start-up or created later
type_data(m, tp) ==
    IF tp \in TypeObj
    THEN [type |-> nb_type_data(tp).type, base |-> nb_type_data(tp).base,
          flags |-> nb_type_data(tp).flags, type_py |-> tp,
          size |-> 1, align |-> 1, destruct |-> nb_type_data(tp).type,
          implicit |-> << >>, implicit_py |-> << >>,
          supplement |-> 0, metaclass |-> MetaSeq[1]]
    ELSE m.nb_types[tp]

\* the type objects that exist
LiveTypes(m) == TypeObj \cup {tp \in NewTypeObj : m.nb_types[tp].type_py # NoType}

FreeTypes(m) == NewTypeObj \ LiveTypes(m)

\* what a type function hands back: the machine and the returned object
TRet(m, o) == [m |-> m, o |-> o]

\* the metaclasses that exist
Metaclasses(m) == {m.nb_type_dict[s] : s \in Supplement} \ {NoType}

\* Variant of nb_type_tp that creates a metaclass for every binding
nb_type_tp_uncached(m, supplement) ==
    TRet([m EXCEPT !.nb_type_dict[supplement] =
                       MetaSeq[Cardinality(Metaclasses(m)) + 1]],
         MetaSeq[Cardinality(Metaclasses(m)) + 1])

\* PyTypeObject *nb_type_tp(nb_internals &internals, size_t supplement): the
\* metaclass of the types with this supplement size, created on first use
nb_type_tp(m, supplement) ==
    IF m.nb_type_dict[supplement] # NoType
    THEN TRet(m, m.nb_type_dict[supplement])
    ELSE TRet([m EXCEPT !.nb_type_dict[supplement] =
                            MetaSeq[Cardinality(Metaclasses(m)) + 1]],
              MetaSeq[Cardinality(Metaclasses(m)) + 1])

\* Variant of nb_type_new that overwrites the entry of a registered identity
nb_type_new_replaces(m, t, result) ==
    IF t.base # NoType /\ m.type_c2p[t.base] = NoType
    THEN TRet(Fail(m, "nb_type_new(): base type not known to nanobind"), NoType)
    ELSE IF result = NoType
    THEN TRet(Fail(m, "nb_type_new(): type construction failed"), NoType)
    ELSE Only({TRet([mt.m EXCEPT !.nb_types[result] =
                            [type |-> t.type, base |-> NoType, flags |-> t.flags,
                             type_py |-> result, size |-> t.size,
                             align |-> t.align, destruct |-> t.destruct,
                             implicit |-> << >>, implicit_py |-> << >>,
                             supplement |-> t.supplement, metaclass |-> mt.o],
                        !.type_c2p[t.type] = result], result)
               : mt \in {nb_type_tp(m, t.supplement)}})

\* PyObject *nb_type_new(const type_init_data *t); `result` is the type
\* object that nb_type_from_metaclass constructs, NoType when it fails
nb_type_new(m, t, result) ==
    IF t.base # NoType /\ m.type_c2p[t.base] = NoType
    THEN TRet(Fail(m, "nb_type_new(): base type not known to nanobind"), NoType)
    ELSE LET base == IF t.base = NoType THEN NoType
                     ELSE type_data(m, m.type_c2p[t.base]).type_py
             inherited == IF base = NoType THEN {}
                          ELSE type_data(m, base).flags \cap
                                 {"has_dynamic_attr", "intrusive_ptr",
                                  "has_shared_from_this"}
         IN  Only({IF result = NoType
                   THEN TRet(Fail(mt.m, "nb_type_new(): type construction failed"),
                             NoType)
                   ELSE Only({IF m1.type_c2p[t.type] # NoType
                              THEN TRet(Fail(m1, "nb_type_new(): type was already registered"),
                                        NoType)
                              ELSE TRet([m1 EXCEPT !.type_c2p[t.type] = result], result)
                              : m1 \in {[mt.m EXCEPT !.nb_types[result] =
                                  [type |-> t.type, base |-> base,
                                   flags |-> t.flags \cup inherited,
                                   type_py |-> result, size |-> t.size,
                                   align |-> t.align, destruct |-> t.destruct,
                                   implicit |-> << >>, implicit_py |-> << >>,
                                   supplement |-> t.supplement,
                                   metaclass |-> mt.o]]}})
                   : mt \in {nb_type_tp(m, t.supplement)}})

\* Variant of nb_type_init that copies the conversion tables of the base
nb_type_init_keeps_conversions(m, self, base) ==
    IF "is_final" \in type_data(m, base).flags
    THEN TRet(m, -1)
    ELSE TRet([m EXCEPT !.nb_types[self] =
                   [type_data(m, base) EXCEPT
                       !.base = base,
                       !.flags = @ \cup {"is_python_type"},
                       !.type_py = self]], 0)

\* Variant of nb_type_init that lets a final type be extended
nb_type_init_ignores_final(m, self, base) ==
    TRet([m EXCEPT !.nb_types[self] =
              [type_data(m, base) EXCEPT
                  !.base = base,
                  !.flags = (@ \cup {"is_python_type"}) \ {"has_implicit_conversions"},
                  !.type_py = self,
                  !.implicit = << >>,
                  !.implicit_py = << >>]], 0)

\* int nb_type_init(PyObject *self, PyObject *args, PyObject *kwds): a class
\* statement in Python that extends the bound type `base`; on failure the
\* interpreter discards `self`
nb_type_init(m, self, base) ==
    IF "is_final" \in type_data(m, base).flags
    THEN TRet(m, -1)
    ELSE TRet([m EXCEPT !.nb_types[self] =
                   [type_data(m, base) EXCEPT
                       !.base = base,
                       !.flags = (@ \cup {"is_python_type"})
                                    \ {"has_implicit_conversions"},
                       !.type_py = self,
                       !.implicit = << >>,
                       !.implicit_py = << >>]], 0)

\* Variant of nb_type_dealloc that unregisters for every type object
nb_type_dealloc_unregisters_always(m, o) ==
    IF m.nb_types[o].type # NoType
    THEN IF m.type_c2p[m.nb_types[o].type] = NoType
         THEN Fail(m, "nb_type_dealloc(): could not find type")
         ELSE [m EXCEPT !.type_c2p[m.nb_types[o].type] = NoType,
                        !.nb_types[o] = NoTypeData]
    ELSE [m EXCEPT !.nb_types[o] = NoTypeData]

\* void nb_type_dealloc(PyObject *o)
nb_type_dealloc(m, o) ==
    IF m.nb_types[o].type # NoType /\ "is_python_type" \notin m.nb_types[o].flags
    THEN IF m.type_c2p[m.nb_types[o].type] = NoType
         THEN Fail(m, "nb_type_dealloc(): could not find type")
         ELSE [m EXCEPT !.type_c2p[m.nb_types[o].type] = NoType,
                        !.nb_types[o] = NoTypeData]
    ELSE [m EXCEPT !.nb_types[o] = NoTypeData]

\* PyObject *nb_type_lookup(const std::type_info *t)
nb_type_lookup(m, t) ==
    IF m.type_c2p[t] # NoType
    THEN type_data(m, m.type_c2p[t]).type_py
    ELSE NoType

\* predicates that implicit conversions are registered with
ImplicitPred == {"p1", "p2"}

\* implicitly_convertible(src, dst): the native type src converts to dst; the
\* entry goes to the end of the table of dst
implicitly_convertible(m, src, dst) ==
    IF m.type_c2p[dst] = NoType
    THEN Fail(m, "implicitly_convertible(): destination type unknown")
    ELSE [m EXCEPT !.nb_types[m.type_c2p[dst]].flags =
                       @ \cup {"has_implicit_conversions"},
                   !.nb_types[m.type_c2p[dst]].implicit = Append(@, src)]

\* implicitly_convertible(predicate, dst): values that the predicate accepts
\* convert to dst
implicitly_convertible_py(m, pred, dst) ==
    IF m.type_c2p[dst] = NoType
    THEN Fail(m, "implicitly_convertible(): destination type unknown")
    ELSE [m EXCEPT !.nb_types[m.type_c2p[dst]].flags =
                       @ \cup {"has_implicit_conversions"},
                   !.nb_types[m.type_c2p[dst]].implicit_py = Append(@, pred)]

\* the record of a call of a type function
TypeCall(op, type, base, tp, flag, ret) ==
    [op |-> op, type |-> type, base |-> base, tp |-> tp, flag |-> flag,
     ret |-> ret]

TypeCommit(m, c) ==
    /\ type_c2p' = m.type_c2p
    /\ nb_types' = m.nb_types
    /\ nb_type_dict' = m.nb_type_dict
    /\ fatal' = m.fatal
    /\ call' = c
    /\ log' = << >>
    /\ UNCHANGED <<inst, inst_c2p, keep_alive, tp_dict, nb_static_property_enabled>>

\* a binding of the native type `id`, as nb::class_<T, Base>(...) issues it,
\* with a supplement of one of the sizes
TypeNewWith(ids, bases, flagsets, supplements) ==
    /\ Running
    /\ \E id \in ids, base \in bases, flags \in flagsets, supplement \in supplements,
          result \in FreeTypes(TM) :
          /\ base # id
          /\ \E r \in {nb_type_new(TM, [type |-> id, base |-> base, flags |-> flags,
                                        size |-> 2, align |-> 2, destruct |-> id,
                                        supplement |-> supplement],
                                   result)} :
                TypeCommit(r.m, TypeCall("type_new", id, base, result, FALSE, r.o))

\* a binding without supplement
TypeNew(ids, bases, flagsets) == TypeNewWith(ids, bases, flagsets, {0})

\* class Sub(base): ... in Python
TypeInit(bases) ==
    /\ Running
    /\ \E base \in LiveTypes(TM) \cap bases, self \in FreeTypes(TM) :
          \E r \in {nb_type_init(TM, self, base)} :
              TypeCommit(r.m, TypeCall("type_init", type_data(TM, base).type, base,
                                       self, r.o = 0,
                                       IF r.o = 0 THEN NoType ELSE "TypeError"))

\* the last reference to a type object goes away: it has no subclass and no
\* instance
TypeDealloc ==
    /\ Running
    /\ \E o \in LiveTypes(TM) \cap NewTypeObj :
          /\ \A tp \in LiveTypes(TM) \cap NewTypeObj : nb_types[tp].base # o
          /\ \A w \in Live : inst[w].tp # o
          /\ \E m1 \in {nb_type_dealloc(TM, o)} :
                TypeCommit(m1, TypeCall("type_dealloc", nb_types[o].type, nb_types[o].base,
                                        o, "is_python_type" \in nb_types[o].flags,
                                        NoType))

\* nb::implicitly_convertible<Src, Dst>() for a native source type
ImplicitlyConvertible(srcs, dsts) ==
    /\ Running
    /\ \E src \in srcs, dst \in dsts :
          /\ type_c2p[dst] \in NewTypeObj
          /\ Len(nb_types[type_c2p[dst]].implicit) < MaxImplicit
          /\ \E m1 \in {implicitly_convertible(TM, src, dst)} :
                TypeCommit(m1, TypeCall("implicitly_convertible", dst, NoType,
                                        type_c2p[dst], FALSE, src))

\* nb::implicitly_convertible<Src, Dst>() for a source that a predicate
\* recognises
ImplicitlyConvertiblePy(preds, dsts) ==
    /\ Running
    /\ \E pred \in preds, dst \in dsts :
          /\ type_c2p[dst] \in NewTypeObj
          /\ Len(nb_types[type_c2p[dst]].implicit_py) < MaxImplicit
          /\ \E m1 \in {implicitly_convertible_py(TM, pred, dst)} :
                TypeCommit(m1, TypeCall("implicitly_convertible_py", dst, NoType,
                                        type_c2p[dst], FALSE, pred))

TypeLookup(ids) ==
    /\ Running
    /\ \E id \in ids :
          TypeCommit(TM, TypeCall("lookup", id, NoType, NoType, FALSE,
                                  nb_type_lookup(TM, id)))

(***************************************************************************)
(* nb_type_get and the implicit conversions.                               *)
(***************************************************************************)
\* a Python object that is no instance of a bound type
PyInt == -2

\* enum class cast_flags
cast_flags == {"convert", "construct"}

\* What the surroundings of a conversion decide:
\*   alloc   : the block the allocator hands out for the converted instance
\*   ctor_ok : the constructor of the destination type accepts the source
\*   accepts : the predicates that return true for the source
GetEnv(alloc, ctor_ok, accepts) ==
    [alloc |-> alloc, ctor_ok |-> ctor_ok, accepts |-> accepts]

\* what nb_type_get hands back: the machine, the returned bool, *out, the
\* objects appended to the cleanup list, the conversion entries examined in
\* order, and the error indicator of the interpreter
GRet(m, ok, out, cleanup, tried, err) ==
    [m |-> m, ok |-> ok, out |-> out, cleanup |-> cleanup, tried |-> tried,
     err |-> err]

\* index of the first element of seq that satisfies Test, 0 when none does
First(seq, Test(_)) ==
    IF \E i \in 1 .. Len(seq) : Test(seq[i])
    THEN CHOOSE i \in 1 .. Len(seq) :
            Test(seq[i]) /\ \A j \in 1 .. i - 1 : ~Test(seq[j])
    ELSE 0

\* the entries of seq examined by a loop that stops at index `found`
Examined(kind, seq, found) ==
    [i \in 1 .. (IF found = 0 THEN Len(seq) ELSE found) |-> <<kind, seq[i]>>]

\* Variant of implicit_search that asks the predicates first
implicit_search_predicates_first(m, src_type, cpp_type_src, dst_type, env) ==
    LET exact   == First(dst_type.implicit, LAMBDA v : v = cpp_type_src)
        subtype == First(dst_type.implicit,
                         LAMBDA v : /\ m.type_c2p[v] # NoType
                                    /\ PyType_IsSubtype(src_type, m.type_c2p[v]))
        py      == First(dst_type.implicit_py, LAMBDA v : v \in env.accepts)
        native  == dst_type.implicit # << >> /\ cpp_type_src # NoType
    IN  IF py # 0
        THEN [found |-> TRUE, tried |-> Examined("predicate", dst_type.implicit_py, py)]
        ELSE IF native /\ exact # 0
        THEN [found |-> TRUE,
              tried |-> Examined("predicate", dst_type.implicit_py, py)
                          \o Examined("exact", dst_type.implicit, exact)]
        ELSE [found |-> native /\ subtype # 0,
              tried |-> Examined("predicate", dst_type.implicit_py, py)
                          \o (IF native
                              THEN Examined("exact", dst_type.implicit, exact)
                                     \o Examined("subtype", dst_type.implicit, subtype)
                              ELSE << >>)]

\* nb_type_get_implicit, lines 868-895: the search for a conversion entry
\* that matches the source
implicit_search(m, src_type, cpp_type_src, dst_type, env) ==
    LET exact   == First(dst_type.implicit, LAMBDA v : v = cpp_type_src)
        subtype == First(dst_type.implicit,
                         LAMBDA v : /\ m.type_c2p[v] # NoType
                                    /\ PyType_IsSubtype(src_type, m.type_c2p[v]))
        py      == First(dst_type.implicit_py, LAMBDA v : v \in env.accepts)
        native  == dst_type.implicit # << >> /\ cpp_type_src # NoType
    IN  IF native /\ exact # 0
        THEN [found |-> TRUE, tried |-> Examined("exact", dst_type.implicit, exact)]
        ELSE IF native /\ subtype # 0
        THEN [found |-> TRUE,
              tried |-> Examined("exact", dst_type.implicit, exact)
                          \o Examined("subtype", dst_type.implicit, subtype)]
        ELSE [found |-> py # 0,
              tried |-> (IF native
                         THEN Examined("exact", dst_type.implicit, exact)
                                \o Examined("subtype", dst_type.implicit, subtype)
                         ELSE << >>)
                          \o Examined("predicate", dst_type.implicit_py, py)]

\* PyErr_Clear(): the error indicator afterwards
PyErr_Clear(err) == NoError

\* Variant of implicit_construct that keeps the failed instance and the error
implicit_construct_keeps_failure(m, dst_type, tried, env) ==
    IF env.alloc = NULL
    THEN GRet(inst_new_impl(m, dst_type.type_py, NULL, NULL), FALSE, NULL, << >>,
              tried, "MemoryError")
    ELSE Only({IF env.ctor_ok
               THEN GRet(nb_inst_set_state(m1, env.alloc, TRUE, TRUE), TRUE,
                         inst_ptr(m1, env.alloc), <<env.alloc>>, tried, NoError)
               ELSE GRet(m1, FALSE, NULL, <<env.alloc>>, tried, "TypeError")
               : m1 \in {inst_new_impl(m, dst_type.type_py, NULL, env.alloc)}})

\* nb_type_get_implicit, lines 899-946: the destination type is called with
\* the source as its argument; tp_new is inst_new, and the constructor that
\* the binding installed either initialises the new instance or raises
implicit_construct(m, dst_type, tried, env) ==
    IF env.alloc = NULL
    THEN GRet(inst_new_impl(m, dst_type.type_py, NULL, NULL), FALSE, NULL, << >>,
              tried, PyErr_Clear("MemoryError"))
    ELSE Only({IF env.ctor_ok
               THEN GRet(nb_inst_set_state(m1, env.alloc, TRUE, TRUE), TRUE,
                         inst_ptr(m1, env.alloc), <<env.alloc>>, tried, NoError)
               ELSE GRet(Py_DECREF(m1, env.alloc), FALSE, NULL, << >>, tried,
                         PyErr_Clear("TypeError"))
               : m1 \in {inst_new_impl(m, dst_type.type_py, NULL, env.alloc)}})

\* static bool nb_type_get_implicit(src, cpp_type_src, dst_type, internals,
\*                                  cleanup, out)
nb_type_get_implicit(m, src, src_type, cpp_type_src, dst_type, env) ==
    Only({IF r.found
          THEN implicit_construct(m, dst_type, r.tried, env)
          ELSE GRet(m, FALSE, NULL, << >>, r.tried, NoError)
          : r \in {implicit_search(m, src_type, cpp_type_src, dst_type, env)}})

\* Variant of nb_type_get that hands out the payload of any wrapper
nb_type_get_ignores_ready(m, cpp_type, src, flags, env) ==
    IF src = Py_None THEN GRet(m, TRUE, NULL, << >>, << >>, NoError)
    ELSE IF src \in Inst /\
            (nb_type_data(m.inst[src].tp).type = cpp_type \/
             (m.type_c2p[cpp_type] # NoType /\
              PyType_IsSubtype(m.inst[src].tp, m.type_c2p[cpp_type])))
    THEN GRet(m, TRUE, inst_ptr(m, src), << >>, << >>, NoError)
    ELSE GRet(m, FALSE, NULL, << >>, << >>, NoError)

\* bool nb_type_get(cpp_type, src, flags, cleanup, out); the call has a
\* cleanup list
nb_type_get(m, cpp_type, src, flags, env) ==
    IF src = Py_None THEN GRet(m, TRUE, NULL, << >>, << >>, NoError)
    ELSE
    LET src_is_nb_type == src \in Inst
        src_type       == IF src_is_nb_type THEN m.inst[src].tp ELSE NoType
        cpp_type_src   == IF src_is_nb_type THEN nb_type_data(src_type).type
                          ELSE NoType
        dst_tp         == m.type_c2p[cpp_type]
        valid          == /\ src_is_nb_type
                          /\ \/ cpp_type = cpp_type_src
                             \/ /\ dst_tp # NoType
                                /\ PyType_IsSubtype(src_type, dst_tp)
    IN  IF valid
        THEN IF ~m.inst[src].ready /\ "construct" \notin flags
             THEN GRet(Emit(m, Ev("PyErr_WarnFormat", src, NULL)), FALSE, NULL,
                       << >>, << >>, NoError)
             ELSE GRet(m, TRUE, inst_ptr(m, src), << >>, << >>, NoError)
        ELSE IF /\ "convert" \in flags
                /\ dst_tp # NoType
                /\ "has_implicit_conversions" \in nb_type_data(dst_tp).flags
        THEN nb_type_get_implicit(m, src, src_type, cpp_type_src,
                                  type_data(TM, dst_tp), env)
        ELSE GRet(m, FALSE, NULL, << >>, << >>, NoError)

\* the record of a call of nb_type_get
GetCall(type, src, flags, env, r) ==
    [op |-> "get", type |-> type, src |-> src, flags |-> flags,
     ctor_ok |-> env.ctor_ok, accepts |-> env.accepts, ok |-> r.ok,
     out |-> r.out, cleanup |-> r.cleanup, tried |-> r.tried, err |-> r.err]

\* a cast of the Python object src to the native type, as a type caster
\* issues it for an argument of a bound function
Get(types, srcs, flagsets, ctors, acceptsets) ==
    /\ Running
    /\ \E cpp_type \in types, src \in srcs \cap (Live \cup {Py_None, PyInt}),
          flags \in flagsets, a \in AllocChoice, ctor_ok \in ctors,
          accepts \in acceptsets :
          \E r \in {nb_type_get(M, cpp_type, src, flags, GetEnv(a, ctor_ok, accepts))} :
              /\ Bounded(r.m)
              /\ Commit(r.m, GetCall(cpp_type, src, flags,
                                     GetEnv(a, ctor_ok, accepts), r))

(***************************************************************************)
(* Attributes of type objects: nb_type_setattro.                           *)
(***************************************************************************)
\* the type objects whose attributes are followed: a type and its subtype
AttrType == {"tA", "tD"}

\* attribute names, as strings of characters
AttrName == {<<"@", "e">>, <<"x">>, << >>}

\* what a name is bound to: nothing, an object, or an nb_static_property
\* descriptor with the value it stores
NoAttr == [kind |-> "none", value |-> 0]

Object(v) == [kind |-> "object", value |-> v]

StaticProperty(v) == [kind |-> "static_property", value |-> v]

\* the machine of an attribute call
SM == [tp_dict |-> tp_dict, enabled |-> nb_static_property_enabled,
       err |-> NoError]

\* _PyType_Lookup: the dictionaries of the type and of its bases, in order
RECURSIVE PyType_Lookup(_, _, _)
PyType_Lookup(m, obj, name) ==
    IF obj = NoType THEN NoAttr
    ELSE IF m.tp_dict[obj][name] # NoAttr THEN m.tp_dict[obj][name]
    ELSE PyType_Lookup(m, nb_type_data(obj).base, name)

\* the type whose dictionary holds the attribute that the lookup finds
RECURSIVE AttrOwner(_, _, _)
AttrOwner(m, obj, name) ==
    IF obj = NoType THEN NoType
    ELSE IF m.tp_dict[obj][name] # NoAttr THEN obj
    ELSE AttrOwner(m, nb_type_data(obj).base, name)

\* PyObject_GetAttr(obj, name) on a type object: a static property yields its
\* value, or itself while nb_static_property_enabled is false; a missing
\* attribute raises AttributeError
PyObject_GetAttr(m, obj, name) ==
    LET found == PyType_Lookup(m, obj, name)
    IN  IF found.kind = "static_property" /\ m.enabled
        THEN Object(found.value)
        ELSE found

\* PyType_Type.tp_setattro: bind the name in the dictionary of the type, or
\* delete it (value NoAttr, nullptr); deleting a name that the dictionary
\* does not hold raises AttributeError
type_setattro(m, obj, name, value) ==
    IF value = NoAttr /\ m.tp_dict[obj][name] = NoAttr
    THEN [m |-> [m EXCEPT !.err = "AttributeError"], rv |-> -1]
    ELSE [m |-> [m EXCEPT !.tp_dict[obj][name] = value], rv |-> 0]

\* nb_static_property_descr_set(cur, obj, value): the property stores the
\* value; the descriptor stays where it is
nb_static_property_descr_set(m, obj, name, value) ==
    IF value = NoAttr
    THEN [m |-> [m EXCEPT !.err = "AttributeError"], rv |-> -1]
    ELSE [m |-> [m EXCEPT !.tp_dict[AttrOwner(m, obj, name)][name] =
                              StaticProperty(value.value)],
          rv |-> 0]

\* cname[0] == '@'
StartsWithAt(name) == Len(name) > 0 /\ name[1] = "@"

\* an nb_type_setattro without the test of the first character
nb_type_setattro_rebinds(m, obj, name, value) ==
    LET cur == PyObject_GetAttr([m EXCEPT !.enabled = FALSE], obj, name)
        m1  == [m EXCEPT !.enabled = TRUE]
    IN  IF cur # NoAttr /\ cur.kind = "static_property"
        THEN nb_static_property_descr_set(m1, obj, name, value)
        ELSE type_setattro(m1, obj, name, value)

\* static int nb_type_setattro(PyObject *obj, PyObject *name, PyObject *value)
nb_type_setattro(m, obj, name, value) ==
    LET cur == PyObject_GetAttr([m EXCEPT !.enabled = FALSE], obj, name)
        m1  == [m EXCEPT !.enabled = TRUE]
    IN  IF cur # NoAttr /\ cur.kind = "static_property"
        THEN nb_static_property_descr_set(m1, obj, name, value)
        ELSE IF cur # NoAttr /\ StartsWithAt(name)
        THEN [m |-> [m1 EXCEPT !.err = "AttributeError"], rv |-> -1]
        ELSE type_setattro(m1, obj, name, value)

\* the record of an attribute call
AttrCall(obj, name, value, r) ==
    [op |-> "setattr", obj |-> obj, name |-> name, value |-> value,
     rv |-> r.rv, err |-> r.m.err, enabled |-> r.m.enabled]

\* `obj.name = value` and `del obj.name` (value NoAttr) on a type object
SetAttr(objs, names, values) ==
    /\ Running
    /\ \E obj \in objs, name \in names, value \in values :
          \E r \in {nb_type_setattro(SM, obj, name, value)} :
              /\ tp_dict' = r.m.tp_dict
              /\ nb_static_property_enabled' = r.m.enabled
              /\ call' = AttrCall(obj, name, value, r)
              /\ log' = << >>
              /\ UNCHANGED <<inst, inst_c2p, type_c2p, keep_alive, nb_types,
                             nb_type_dict, fatal>>

Init ==
    /\ inst = [w \in Inst |-> NoInst]
    /\ inst_c2p = << >>
    /\ type_c2p = [c \in CppType |->
                      IF c = "A" THEN "tA" ELSE IF c = "B" THEN "tB"
                      ELSE IF c = "D" THEN "tD" ELSE IF c = "I" THEN "tI"
                      ELSE IF c = "S" THEN "tS" ELSE NoType]
    /\ keep_alive = << >>
    /\ log = << >>
    /\ call = NoCall
    /\ nb_types = [tp \in NewTypeObj |-> NoTypeData]
    /\ nb_type_dict = [s \in Supplement |-> IF s = 0 THEN MetaSeq[1] ELSE NoType]
    /\ tp_dict = [tp \in AttrType |-> [name \in AttrName |-> NoAttr]]
    /\ nb_static_property_enabled = TRUE
    /\ fatal = NoError

(***************************************************************************)
(* SpecMap: the instance map under every way of creating a wrapper.        *)
(***************************************************************************)
NextMap ==
    \/ Put({"A"}, {101}, {"copy", "reference"}, {}, {FALSE})
    \/ PutUnique({"A"}, {101})
    \/ Alloc({"tA"})
    \/ Wrap({"tA"}, {101})
    \/ Decref
    \/ Return

SpecMap == Init /\ [][NextMap]_vars

(***************************************************************************)
(* Claims about the instance map.                                          *)
(***************************************************************************)
\* the instances an address maps to, in list order
EntryList(map, p) == IF p \in DOMAIN map THEN map[p].list ELSE << >>

\* how often w is recorded under address p
Occurrences(map, p, w) ==
    Cardinality({i \in 1 .. Len(EntryList(map, p)) : EntryList(map, p)[i] = w})

RECURSIVE SumLen(_, _)
SumLen(map, ps) ==
    IF ps = {} THEN 0
    ELSE LET p == CHOOSE p \in ps : TRUE
         IN  Len(map[p].list) + SumLen(map, ps \ {p})

\* C1: every live wrapper with payload address p is recorded exactly once
\* under p and under no other address, no freed wrapper is recorded anywhere,
\* the map records as many wrappers as are live, and it is empty exactly when
\* no wrapper is live.
C1_MapHoldsLiveWrappersOnce ==
    /\ \A w \in Inst : \A p \in Addr :
          Occurrences(inst_c2p, p, w) =
              IF inst[w].tp # NoType /\ inst[w].ptr = p THEN 1 ELSE 0
    /\ DOMAIN inst_c2p \subseteq Addr
    /\ SumLen(inst_c2p, DOMAIN inst_c2p) = Cardinality(Live)
    /\ (DOMAIN inst_c2p = {}) <=> (Live = {})

\* C1 witness: three wrappers were registered at one address and a
\* deallocation has removed one of them from the list, two stay recorded
C1_Witness ==
    /\ call.op = "decref"
    /\ \E i \in 1 .. Len(log) : log[i].ev = "unmap" /\ log[i].p = 101
    /\ Len(EntryList(inst_c2p, 101)) = 2
    /\ Cardinality(Live) = 2

(***************************************************************************)
(* Spec: nb_type_put under every policy, for related and unrelated types.  *)
(***************************************************************************)
Next ==
    \/ Put({"A"}, {101}, rv_policy, {}, BOOLEAN)
    \/ Put({"B"}, {101}, {"reference", "none"}, {}, {FALSE})
    \/ Put({"D", "U"}, {101}, {"reference"}, {}, {FALSE})
    \/ Decref
    \/ Return

Spec == Init /\ [][Next]_vars

(***************************************************************************)
(* Claims about nb_type_put.                                               *)
(***************************************************************************)
\* positions of the list of address p that hold a wrapper whose type is
\* cpp_type or a registered subtype of it
Matching(cpp_type, p) ==
    {i \in 1 .. Len(EntryList(inst_c2p, p)) :
        LET tp == inst[EntryList(inst_c2p, p)[i]].tp
        IN  \/ nb_type_data(tp).type = cpp_type
            \/ /\ type_c2p[cpp_type] # NoType
               /\ PyType_IsSubtype(tp, type_c2p[cpp_type])}

\* the first of them in list order
FirstMatching(cpp_type, p) ==
    EntryList(inst_c2p, p)[CHOOSE i \in Matching(cpp_type, p) :
                               \A j \in Matching(cpp_type, p) : i <= j]

\* the step is a call of nb_type_put
IsPut == call = NoCall /\ call'.op = "put"

\* C2: under every policy other than copy, a put of type T at an address where
\* a live wrapper of type T or of a registered subtype is registered returns
\* that wrapper (the first such in the list), adds one to its reference count,
\* creates no wrapper and changes no flag, no other wrapper, and not the map.
C2_PutReturnsRegisteredWrapper ==
    [][(IsPut /\ call'.rvp # "copy" /\ Matching(call'.type, call'.value) # {}) =>
          LET w == FirstMatching(call'.type, call'.value)
          IN  /\ call'.ret = w
              /\ ~call'.is_new
              /\ inst' = [inst EXCEPT ![w].refcnt = @ + 1]
              /\ inst_c2p' = inst_c2p
              /\ fatal' = NoError]_vars

\* C2 witness: put(A, p, take_ownership) has returned the wrapper of the
\* subtype D that was registered at p under policy reference; it has two
\* references now and still does not own the payload
C2_Witness ==
    /\ call.op = "put" /\ call.type = "A" /\ call.rvp = "take_ownership"
    /\ call.ret \in Live /\ ~call.is_new
    /\ inst[call.ret].tp = "tD"
    /\ inst[call.ret].refcnt = 2
    /\ ~inst[call.ret].cpp_delete /\ ~inst[call.ret].destruct
    /\ Cardinality(Live) = 1

\* a wrapper with co-located storage at a fresh address is what the call
\* returned, and the list of address p is as before
CopyCreated(p, w) ==
    /\ w \in Inst /\ inst[w].tp = NoType
    /\ call'.is_new
    /\ inst'[w].tp = type_c2p[call'.type]
    /\ inst'[w].internal /\ inst'[w].ptr = InternalAddr(w)
    /\ inst'[w].ptr # p /\ inst'[w].ptr \notin DOMAIN inst_c2p
    /\ \A v \in Inst \ {w} : inst'[v] = inst[v]
    /\ EntryList(inst_c2p', p) = EntryList(inst_c2p, p)
    /\ EntryList(inst_c2p', inst'[w].ptr) = <<w>>

\* the step is a copy put of a registered, copy-constructible, non-intrusive
\* type
IsCopyPut ==
    /\ IsPut /\ call'.rvp = "copy"
    /\ type_c2p[call'.type] # NoType
    /\ "is_copy_constructible" \in nb_type_data(type_c2p[call'.type]).flags
    /\ "intrusive_ptr" \notin nb_type_data(type_c2p[call'.type]).flags

\* C3 as stated: a copy put of a non-intrusive copy-constructible type always
\* creates a new wrapper with co-located storage at a fresh address and leaves
\* the entry of p unchanged.
C3_CopyAlwaysCreates ==
    [][IsCopyPut => CopyCreated(call'.value, call'.ret)]_vars

\* C3 amended: such a put creates a new wrapper with co-located storage at a
\* fresh address and leaves the entry of p unchanged, unless the copy
\* constructor of T throws: then the call returns no wrapper, and the
\* wrappers and the map are as before the call.
C3_CopyCreatesUnlessThrown ==
    [][IsCopyPut =>
          IF call'.thrown
          THEN call'.ret = NULL /\ inst' = inst /\ inst_c2p' = inst_c2p
          ELSE CopyCreated(call'.value, call'.ret)]_vars

\* C3 witness: a second copy put for an address at which a wrapper is
\* registered has returned a second co-located wrapper
C3_Witness ==
    /\ call.op = "put" /\ call.rvp = "copy" /\ call.value = 101 /\ call.is_new
    /\ Len(EntryList(inst_c2p, 101)) = 1
    /\ inst[call.ret].internal
    /\ \E v \in Live \ {call.ret} :
          inst[v].internal /\ inst[v].tp = inst[call.ret].tp

\* the types of the wrappers registered at p
TypesAt(p) ==
    {inst[EntryList(inst_c2p, p)[i]].tp : i \in 1 .. Len(EntryList(inst_c2p, p))}

\* C4: when wrappers of the unrelated types A and B are registered at one
\* address p, a put with a policy other than copy for A returns the registered
\* wrapper of type A, and for B the one of type B, in whichever order the two
\* were created.
C4_AliasResolvesDeclaredType ==
    [][(IsPut /\ call'.rvp # "copy" /\ call'.type \in {"A", "B"}
              /\ TypesAt(call'.value) = {"tA", "tB"}) =>
          /\ call'.ret \in Live
          /\ Occurrences(inst_c2p, call'.value, call'.ret) = 1
          /\ inst[call'.ret].tp = type_c2p[call'.type]
          /\ {w \in Inst : inst'[w].tp # NoType} = Live]_vars

\* C4 witness: the wrapper of B was created first, the wrapper of A second,
\* and a put for A has returned the second wrapper of the list
C4_Witness ==
    /\ call.op = "put" /\ call.type = "A" /\ call.rvp = "reference"
    /\ Len(EntryList(inst_c2p, 101)) = 2
    /\ inst[EntryList(inst_c2p, 101)[1]].tp = "tB"
    /\ call.ret = EntryList(inst_c2p, 101)[2]
    /\ inst[call.ret].tp = "tA"
    /\ ~call.is_new

\* C10: a put under policy none never creates a wrapper: it returns a wrapper
\* that was registered at p, of type T or a subtype, or it fails, and the map
\* holds the wrappers it held before.
C10_NoneNeverCreates ==
    [][(IsPut /\ call'.rvp = "none") =>
          /\ \/ call'.ret = NULL
             \/ /\ call'.ret \in Live
                /\ Occurrences(inst_c2p, call'.value, call'.ret) = 1
                /\ call'.ret = FirstMatching(call'.type, call'.value)
          /\ inst_c2p' = inst_c2p]_vars

(***************************************************************************)
(* SpecOwn: ownership of a payload under put, put_unique, wrap, set_state, *)
(* relinquish_ownership and deallocation.                                  *)
(***************************************************************************)
NextOwn ==
    \/ Put({"A", "B"}, {101}, {"take_ownership"}, {}, {FALSE})
    \/ PutUnique({"A"}, {101})
    \/ SetState({TRUE}, BOOLEAN)
    \/ Relinquish
    \/ Decref
    \/ Return

SpecOwn == Init /\ [][NextOwn]_vars

\* the live wrappers registered at address p that will call operator delete
DeletionOwners(p) == {w \in Live : inst[w].ptr = p /\ inst[w].cpp_delete}

\* C5: at most one live wrapper registered at a payload address has
\* cpp_delete set, after any sequence of put, wrap, put_unique, set_state,
\* relinquish_ownership and deallocation.
C5_SingleDeletionOwner ==
    \A p \in Addr : Cardinality(DeletionOwners(p)) <= 1

(***************************************************************************)
(* SpecKeep: keep-alive edges and the deallocation of wrappers.            *)
(***************************************************************************)
NextKeep ==
    \/ Put({"B"}, {101}, {"take_ownership"}, {}, {FALSE})
    \/ Put({"A"}, {101}, {"copy", "reference"}, {}, {FALSE})
    \/ KeepAlive({1}, {2, 3})
    \/ KeepAliveCallback({1}, {1}, Callbacks)
    \/ Decref
    \/ Return

SpecKeep == Init /\ [][NextKeep]_vars

(***************************************************************************)
(* Claims about deallocation and keep-alive edges.                         *)
(***************************************************************************)
\* the wrappers the step deallocates
Freed == {w \in Live : inst'[w].tp = NoType}

\* what the step did on behalf of wrapper w, in order
EventsOf(w) == SelectSeq(log', LAMBDA e : e.w = w)

\* the names of the events
Kinds(events) == [i \in 1 .. Len(events) |-> events[i].ev]

\* the edges of the release events among them
Released(events) ==
    LET rel == SelectSeq(events, LAMBDA e : e.ev \in {"callback", "decref"})
    IN  [i \in 1 .. Len(rel) |-> rel[i].node]

\* the outgoing edges of w before the step
Edges(w) == IF w \in DOMAIN keep_alive THEN keep_alive[w] ELSE << >>

\* the steps the deallocation of w has to take, from its flags before the step
ExpectedKinds(w) ==
    LET t == nb_type_data(inst[w].tp)
    IN  <<"dealloc">>
        \o (IF "has_dynamic_attr" \in t.flags THEN <<"dict">> ELSE << >>)
        \o (IF inst[w].destruct
            THEN IF "has_destruct" \in t.flags
                 THEN <<"destruct", "t_destruct">> ELSE <<"destruct">>
            ELSE << >>)
        \o (IF inst[w].cpp_delete THEN <<"delete">> ELSE << >>)
        \o (IF inst[w].clear_keep_alive
            THEN [i \in 1 .. Len(Edges(w)) |->
                     IF Edges(w)[i].callback # NoCallback THEN "callback" ELSE "decref"]
            ELSE << >>)
        \o <<"unmap", "free">>

\* C6: the deallocation of a wrapper takes its steps in this order, each one
\* exactly when its flag is set: clear the dictionary (type with dynamic
\* attributes), destruct (destruct), delete the payload (cpp_delete), release
\* every keep-alive edge (clear_keep_alive), remove the wrapper from the map
\* (always), free the wrapper (always).
C6_DeallocStepsInOrder ==
    [][\A w \in Freed : Kinds(EventsOf(w)) = ExpectedKinds(w)]_vars

\* C6 witness: one deallocation has taken all six steps
C6_Witness ==
    \E w \in Inst :
        /\ inst[w].tp = NoType
        /\ \A k \in {"dict", "destruct", "delete", "decref", "unmap", "free"} :
              \E i \in 1 .. Len(log) : log[i].w = w /\ log[i].ev = k

\* references the step dropped from p: the caller's and those of edges
Dropped(p) ==
    (IF call'.op = "decref" /\ call'.arg = p THEN 1 ELSE 0)
    + Cardinality({i \in 1 .. Len(log') :
                      log'[i].ev = "decref" /\ log'[i].node.payload = p})

\* C7: the deallocation of a nurse releases each of its edges exactly once
\* (each callback is called once, each patient loses one reference), no edge
\* is released or lost while the nurse lives, and none is left once it is
\* freed.
C7_EdgesReleasedOnceAtDealloc ==
    [][/\ \A w \in Freed :
             /\ Released(EventsOf(w)) = Edges(w)
             /\ w \notin DOMAIN keep_alive'
       /\ \A w \in Live \ Freed :
             /\ Released(EventsOf(w)) = << >>
             /\ w \in DOMAIN keep_alive => w \in DOMAIN keep_alive'
             /\ Len(Edges(w)) <= Len(IF w \in DOMAIN keep_alive'
                                     THEN keep_alive'[w] ELSE << >>)
       /\ call'.op = "decref" =>
             \A p \in Live :
                 IF p \in Freed THEN inst[p].refcnt = Dropped(p)
                 ELSE inst'[p].refcnt = inst[p].refcnt - Dropped(p)
       /\ DOMAIN keep_alive' \subseteq {w \in Inst : inst'[w].tp # NoType}]_vars

\* C7 witness: a nurse with a callback edge and two patient edges was
\* deallocated, and a patient that only the nurse kept alive went with it
C7_Witness ==
    /\ call.op = "decref" /\ inst[call.arg].tp = NoType
    /\ Cardinality({i \in 1 .. Len(log) :
                       log[i].w = call.arg /\ log[i].ev = "decref"}) = 2
    /\ \E i \in 1 .. Len(log) : log[i].w = call.arg /\ log[i].ev = "callback"
    /\ \E i \in 1 .. Len(log) : log[i].w # call.arg /\ log[i].ev = "free"

\* the step is a link of a nurse that adds an edge
IsLink ==
    /\ call = NoCall
    /\ call'.op \in {"keep_alive", "keep_alive_callback"}
    /\ keep_alive' # keep_alive

\* the edge of the link
LinkEdge ==
    IF call'.op = "keep_alive" THEN WeakrefSeq(call'.value, NoCallback)
    ELSE WeakrefSeq(call'.value, call'.type)

\* C8 as stated: every link, with a patient or with a callback, appends its
\* edge at the end of the nurse's list.
C8_EveryLinkAppends ==
    [][IsLink => keep_alive'[call'.arg] = Append(Edges(call'.arg), LinkEdge)]_vars

\* C8 amended: a link with a patient appends its edge at the end of the
\* nurse's list and a link with a callback inserts its edge at the head; the
\* deallocation of the nurse releases the edges in list order, head first.
C8_PatientAppendsCallbackPrepends ==
    [][/\ IsLink =>
             keep_alive'[call'.arg] =
                 IF call'.op = "keep_alive"
                 THEN Append(Edges(call'.arg), LinkEdge)
                 ELSE <<LinkEdge>> \o Edges(call'.arg)
       /\ \A w \in Freed :
             inst[w].clear_keep_alive => Released(EventsOf(w)) = Edges(w)]_vars

\* C8 witness: a callback was linked to a nurse that had a callback edge and
\* a patient edge; its edge is the head of the list
C8_Witness ==
    /\ call.op = "keep_alive_callback" /\ call.arg \in DOMAIN keep_alive
    /\ Len(keep_alive[call.arg]) = 3
    /\ keep_alive[call.arg][1] = WeakrefSeq(call.value, call.type)
    /\ keep_alive[call.arg][2].callback \notin {NoCallback, call.type}
    /\ keep_alive[call.arg][3].callback = NoCallback

\* C9: linking a patient to a nurse that already has an edge to this patient
\* without a callback changes nothing: not the nurse's list, not the
\* patient's reference count, not a flag.
C9_SecondLinkIsNoOp ==
    [][(call = NoCall /\ call'.op = "keep_alive"
          /\ \E i \in 1 .. Len(Edges(call'.arg)) :
                Edges(call'.arg)[i] = WeakrefSeq(call'.value, NoCallback)) =>
          /\ keep_alive' = keep_alive
          /\ inst' = inst
          /\ inst_c2p' = inst_c2p]_vars

\* C9 witness: the edge to the patient of the call is followed by the edge to
\* another patient and preceded by a callback edge, so the call was a second
\* link of this patient; the list holds one edge to it
C9_Witness ==
    /\ call.op = "keep_alive" /\ call.arg \in DOMAIN keep_alive
    /\ Len(keep_alive[call.arg]) = 3
    /\ keep_alive[call.arg][1].callback # NoCallback
    /\ keep_alive[call.arg][2] = WeakrefSeq(call.value, NoCallback)
    /\ keep_alive[call.arg][3].callback = NoCallback
    /\ keep_alive[call.arg][3].payload # call.value
    /\ inst[call.arg].clear_keep_alive

(***************************************************************************)
(* Claims about the policies of nb_type_put.                               *)
(***************************************************************************)
\* the step is a put under reference_internal with no self object
IsPutWithoutSelf ==
    IsPut /\ call'.rvp = "reference_internal" /\ call'.self_py = NULL

\* the call returned no wrapper and changed nothing
PutFailedUnchanged ==
    /\ call'.ret = NULL /\ ~call'.is_new
    /\ inst' = inst /\ inst_c2p' = inst_c2p /\ keep_alive' = keep_alive
    /\ fatal' = NoError

\* C11 as stated: a put under reference_internal without a self object
\* returns no wrapper and changes nothing, whether or not a wrapper is
\* registered at the address.
C11_NoSelfAlwaysFails ==
    [][IsPutWithoutSelf => PutFailedUnchanged]_vars

\* C11 amended: a put under reference_internal without a self object returns
\* no wrapper and changes nothing unless a wrapper of type T or of a
\* registered subtype is registered at the address; that wrapper is returned
\* with one more reference, and no wrapper, map entry or edge is added.
C11_NoSelfFailsUnlessRegistered ==
    [][IsPutWithoutSelf =>
          IF Matching(call'.type, call'.value) # {}
          THEN /\ call'.ret = FirstMatching(call'.type, call'.value)
               /\ ~call'.is_new
               /\ inst' = [inst EXCEPT ![call'.ret].refcnt = @ + 1]
               /\ inst_c2p' = inst_c2p /\ keep_alive' = keep_alive
          ELSE PutFailedUnchanged]_vars

\* C11 witness: the put has failed at an address where a wrapper of an
\* unrelated type is registered
C11_Witness ==
    /\ call.op = "put" /\ call.rvp = "reference_internal" /\ call.self_py = NULL
    /\ call.type = "A" /\ call.ret = NULL
    /\ TypesAt(call.value) = {"tB"}
    /\ Cardinality(Live) = 1

(***************************************************************************)
(* SpecPolicy: the flags nb_type_put_common gives a new wrapper of a type  *)
(* without traits; SpecIntrusive and SpecShared: the same for a type with  *)
(* an intrusive reference counter and for one with shared ownership.       *)
(***************************************************************************)
NextPolicy ==
    \/ Put({"B"}, {101}, rv_policy, {1}, {FALSE})
    \/ Put({"A"}, {101}, {"move", "take_ownership"}, {}, {FALSE})
    \/ Decref
    \/ Return

SpecPolicy == Init /\ [][NextPolicy]_vars

NextIntrusive ==
    \/ Put({"I"}, {101, 102}, rv_policy, {1}, {FALSE})
    \/ Decref
    \/ Return

SpecIntrusive == Init /\ [][NextIntrusive]_vars

NextShared ==
    \/ PutShared({"S"}, {101}, rv_policy, BOOLEAN)
    \/ Decref
    \/ Return

SpecShared == Init /\ [][NextShared]_vars

\* the step is a put that has created the wrapper it returns
IsCreatingPut ==
    /\ IsPut /\ call'.ret \in Inst
    /\ inst[call'.ret].tp = NoType /\ inst'[call'.ret].tp # NoType

\* the traits of the type of the put
PutTypeFlags == nb_type_data(type_c2p[call'.type]).flags

\* the events of one kind that the step logged for wrapper w
EventsOfKind(w, kind) == {i \in 1 .. Len(log') : log'[i].w = w /\ log'[i].ev = kind}

\* the new wrapper refers to the address of the put
ExternalStorage(w) == ~inst'[w].internal /\ inst'[w].ptr = call'.value

\* the new wrapper holds the value itself
CoLocatedStorage(w) == inst'[w].internal /\ inst'[w].ptr = InternalAddr(w)

\* C12: a wrapper that put creates for a type with an intrusive reference
\* counter refers to the original address with external storage and has
\* ready, destruct and cpp_delete set, whatever policy was requested, and the
\* set_self_py hook of the type is called once with it.
C12_IntrusiveTakesOwnership ==
    [][(IsCreatingPut /\ "intrusive_ptr" \in PutTypeFlags) =>
          LET w == call'.ret
          IN  /\ call'.is_new
              /\ ExternalStorage(w)
              /\ inst'[w].ready /\ inst'[w].destruct /\ inst'[w].cpp_delete
              /\ Cardinality(EventsOfKind(w, "set_self_py")) = 1
              /\ \A i \in EventsOfKind(w, "set_self_py") : log'[i].p = call'.value
              /\ EventsOfKind(w, "copy") = {} /\ EventsOfKind(w, "move") = {}]_vars

\* C12 witness: put under reference_internal with a self object has created
\* an owning wrapper at the address, next to the self object
C12_Witness ==
    /\ call.op = "put" /\ call.type = "I" /\ call.rvp = "reference_internal"
    /\ call.self_py \in Live /\ call.is_new /\ call.ret # call.self_py
    /\ inst[call.ret].ptr = call.value /\ ~inst[call.ret].internal
    /\ inst[call.ret].ready /\ inst[call.ret].destruct /\ inst[call.ret].cpp_delete
    /\ ~inst[call.ret].clear_keep_alive
    /\ \E i \in 1 .. Len(log) : log[i].ev = "set_self_py" /\ log[i].w = call.ret

\* C13: a wrapper that put creates for a type without the intrusive and the
\* shared-ownership trait is ready; under copy and move it has co-located
\* storage, destruct set and cpp_delete clear; under take_ownership external
\* storage, destruct and cpp_delete set; under reference and
\* reference_internal external storage, destruct and cpp_delete clear; a
\* move of a type that is copy- but not move-constructible copies.
C13_FlagsFollowPolicy ==
    [][(IsCreatingPut /\ "intrusive_ptr" \notin PutTypeFlags
                      /\ "has_shared_from_this" \notin PutTypeFlags) =>
          LET w == call'.ret
              p == call'.rvp
          IN  /\ call'.is_new
              /\ inst'[w].ready
              /\ p \in {"copy", "move"} =>
                    /\ CoLocatedStorage(w)
                    /\ inst'[w].destruct /\ ~inst'[w].cpp_delete
              /\ p = "take_ownership" =>
                    /\ ExternalStorage(w)
                    /\ inst'[w].destruct /\ inst'[w].cpp_delete
              /\ p \in {"reference", "reference_internal"} =>
                    /\ ExternalStorage(w)
                    /\ ~inst'[w].destruct /\ ~inst'[w].cpp_delete
              /\ p = "copy" =>
                    EventsOfKind(w, "copy") # {} /\ EventsOfKind(w, "move") = {}
              /\ p = "move" =>
                    IF "is_move_constructible" \in PutTypeFlags
                    THEN EventsOfKind(w, "move") # {} /\ EventsOfKind(w, "copy") = {}
                    ELSE EventsOfKind(w, "copy") # {} /\ EventsOfKind(w, "move") = {}
              /\ p \notin {"copy", "move"} =>
                    EventsOfKind(w, "copy") = {} /\ EventsOfKind(w, "move") = {}]_vars

\* C13 witness: a move of the copy- but not move-constructible type B has
\* created a co-located wrapper by copying
C13_Witness ==
    /\ call.op = "put" /\ call.type = "B" /\ call.rvp = "move" /\ call.is_new
    /\ inst[call.ret].internal /\ inst[call.ret].ready
    /\ inst[call.ret].destruct /\ ~inst[call.ret].cpp_delete
    /\ \E i \in 1 .. Len(log) : log[i].ev = "copy" /\ log[i].w = call.ret

----------------------------------------------------------------------------
(* Ownership transfer with nb_type_put_unique / nb_type_relinquish_ownership *)

IsPutUnique == call = NoCall /\ call'.op = "put_unique" /\ call'.ret # NULL

Flags(w) == <<w.ready, w.destruct, w.cpp_delete>>

\* C15: a put_unique(T, v, cpp_delete = true) that returns a wrapper leaves
\* it with (ready, destruct, cpp_delete) = (true, true, true); a newly
\* created wrapper is always accepted, an already registered one only when
\* all three flags were clear before the call, and any other triple ends in
\* the fatal error.  A put_unique(..., cpp_delete = false) that returns a
\* wrapper found it registered and not ready, makes it ready, and leaves
\* destruct and cpp_delete as they were.
C15_PutUniqueFlagTriple ==
    [][IsPutUnique =>
        LET o == call'.ret
        IN  IF call'.flag
            THEN /\ fatal' = NoError =>
                        /\ Flags(inst'[o]) = <<TRUE, TRUE, TRUE>>
                        /\ call'.is_new \/
                             (o \in Live /\ Flags(inst[o]) = <<FALSE, FALSE, FALSE>>)
                 /\ call'.is_new => fatal' = NoError
                 /\ (~call'.is_new /\ Flags(inst[o]) # <<FALSE, FALSE, FALSE>>)
                        => fatal' # NoError
            ELSE fatal' = NoError =>
                    /\ ~call'.is_new
                    /\ o \in Live
                    /\ ~inst[o].ready
                    /\ inst'[o].ready
                    /\ inst'[o].destruct = inst[o].destruct
                    /\ inst'[o].cpp_delete = inst[o].cpp_delete]_vars

\* put_unique(cpp_delete = true) accepted an already registered wrapper
C15_Witness ==
    /\ call.op = "put_unique"
    /\ call.flag
    /\ call.ret # NULL
    /\ ~call.is_new
    /\ fatal = NoError
    /\ Flags(inst[call.ret]) = <<TRUE, TRUE, TRUE>>

\* Wrappers with co-located storage (nb_inst_alloc) next to wrappers of
\* external payloads, handed back and forth with put_unique / relinquish
NextReclaim ==
    \/ Alloc({"tA"})
    \/ PutUnique({"A"}, {101, 1})
    \/ Relinquish
    \/ Decref
    \/ Return

SpecReclaim == Init /\ [][NextReclaim]_vars

IsRelinquishReady ==
    call = NoCall /\ call'.op = "relinquish_ownership" /\ inst[call'.arg].ready

OwnsExternal(w) == w.destruct /\ w.cpp_delete /\ ~w.internal

\* Succeeded: destruct and cpp_delete cleared, wrapper not ready
Reclaimed(o) ==
    /\ call'.ret = o
    /\ fatal' = NoError
    /\ inst' = [inst EXCEPT ![o].cpp_delete = FALSE, ![o].destruct = FALSE,
                            ![o].ready = FALSE]

\* Failed with next_overload: nothing changed
NextOverload ==
    /\ call'.ret = NULL
    /\ fatal' = NoError
    /\ inst' = inst

\* C17 as stated: whichever cpp_delete argument is passed, relinquish on a
\* ready wrapper succeeds exactly when the wrapper has destruct and
\* cpp_delete set and external storage, clearing both flags and ready, and
\* otherwise fails with next_overload leaving the flags unchanged.
C17_ReclaimNeedsOwnedExternal ==
    [][IsRelinquishReady =>
        IF OwnsExternal(inst[call'.arg])
        THEN Reclaimed(call'.arg)
        ELSE NextOverload]_vars

\* C17: relinquish_ownership(o, cpp_delete = true) on a ready wrapper
\* succeeds exactly when the wrapper has destruct and cpp_delete set and
\* external storage, clearing destruct, cpp_delete and ready, and otherwise
\* fails with next_overload leaving the wrapper unchanged;
\* relinquish_ownership(o, cpp_delete = false) on a ready wrapper always
\* succeeds, clears ready only and leaves destruct and cpp_delete as they
\* were.
C17_ReclaimTestOnlyWithCppDelete ==
    [][IsRelinquishReady =>
        IF call'.flag
        THEN IF OwnsExternal(inst[call'.arg])
             THEN Reclaimed(call'.arg)
             ELSE NextOverload
        ELSE /\ call'.ret = call'.arg
             /\ fatal' = NoError
             /\ inst' = [inst EXCEPT ![call'.arg].ready = FALSE]]_vars

\* relinquish(cpp_delete = true) refused a ready wrapper that has destruct
\* and cpp_delete set but co-located storage
C17_Witness ==
    /\ call.op = "relinquish_ownership"
    /\ call.flag
    /\ call.ret = NULL
    /\ fatal = NoError
    /\ inst[call.arg].ready
    /\ inst[call.arg].internal
    /\ inst[call.arg].destruct
    /\ inst[call.arg].cpp_delete

\* C18: no relinquish_ownership call, on a wrapper in any flag state,
\* reaches the fatal-abort state; every call either succeeds or returns a
\* recoverable failure.
C18_ReclaimNeverFatal ==
    call.op = "relinquish_ownership" => fatal = NoError

\* A wrapper is handed to Python with put_unique and reclaimed at once
NextRoundTrip ==
    \/ Alloc({"tA"})
    \/ PutUnique({"A"}, {101, 102, 1})
    \/ RelinquishReturned
    \/ Decref
    \/ Return

SpecRoundTrip == Init /\ [][NextRoundTrip]_vars

\* relinquish_ownership directly follows a put_unique(cpp_delete = true)
\* that returned a wrapper
IsReclaimAfterPutUnique ==
    /\ call.op = "put_unique"
    /\ call.flag
    /\ call'.op = "relinquish_ownership"
    /\ call'.arg = call.ret

\* relinquish_ownership directly follows a relinquish_ownership that
\* succeeded on the same wrapper
IsSecondReclaim ==
    /\ call.op = "relinquish_ownership"
    /\ call.ret # NULL
    /\ call'.op = "relinquish_ownership"
    /\ call'.arg = call.ret

\* the call did not succeed, changed no flag of any wrapper, and ran no
\* destructor and released no memory
FailedWithoutRelease ==
    /\ call'.ret = NULL
    /\ inst' = inst
    /\ inst_c2p' = inst_c2p
    /\ \A i \in 1 .. Len(log') : log'[i].ev \notin {"destruct", "delete", "free"}

----------------------------------------------------------------------------
(* The type registry: types are bound, extended in Python, destroyed and     *)
(* looked up.  U is an identity that nothing binds at start-up.             *)

NextTypes ==
    \/ TypeNew({"A", "U"}, {NoType, "A", "U"}, {{}, {"is_final"}})
    \/ TypeInit({"tA"} \cup NewTypeObj)
    \/ TypeDealloc
    \/ TypeLookup({"A", "U"})
    \/ Return

SpecTypes == Init /\ [][NextTypes]_vars

IsTypeNew == call = NoCall /\ call'.op = "type_new"

\* the type objects that were bound to the identity and still exist
Descriptors(id) ==
    {tp \in LiveTypes(TM) : /\ type_data(TM, tp).type = id
                            /\ "is_python_type" \notin type_data(TM, tp).flags}

BaseUnknown == call'.base # NoType /\ type_c2p[call'.base] = NoType

\* C19: while the process runs every identity has at most one bound type
\* object; binding a registered identity ends in the fatal "already
\* registered" error with the registry unchanged; binding an unregistered
\* identity adds exactly one entry, whose type_data points back to the new
\* type object.
C19_OneDescriptorPerIdentity ==
    /\ [](fatal = NoError => \A id \in CppType : Cardinality(Descriptors(id)) <= 1)
    /\ [][IsTypeNew =>
            IF BaseUnknown
            THEN /\ fatal' = "nb_type_new(): base type not known to nanobind"
                 /\ type_c2p' = type_c2p
            ELSE IF type_c2p[call'.type] # NoType
            THEN /\ fatal' = "nb_type_new(): type was already registered"
                 /\ type_c2p' = type_c2p
            ELSE /\ fatal' = NoError
                 /\ nb_types[call'.tp] = NoTypeData
                 /\ type_c2p' = [type_c2p EXCEPT ![call'.type] = call'.tp]
                 /\ nb_types'[call'.tp].type = call'.type
                 /\ nb_types'[call'.tp].type_py = call'.tp
                 /\ call'.ret = call'.tp]_vars

\* U was bound and is bound again
C19_Witness ==
    /\ call.op = "type_new"
    /\ call.type = "U"
    /\ fatal = "nb_type_new(): type was already registered"
    /\ type_c2p["U"] \in NewTypeObj \ {call.tp}

IsTypeDealloc == call = NoCall /\ call'.op = "type_dealloc"

IsTypeLookup == call = NoCall /\ call'.op = "lookup"

\* C20: nb_type_lookup(identity) returns a type object exactly when the
\* identity was bound and its type object still exists, and then returns
\* that object; destroying a bound type object removes its own entry and no
\* other (fatal when the entry is missing); destroying a subclass that was
\* defined in Python leaves the registry unchanged.
C20_LookupFindsLiveBoundTypes ==
    /\ [](fatal = NoError =>
            \A id \in CppType :
                IF Descriptors(id) = {} THEN nb_type_lookup(TM, id) = NoType
                ELSE nb_type_lookup(TM, id) \in Descriptors(id))
    /\ [][/\ IsTypeLookup =>
                /\ call'.ret # NoType <=> Descriptors(call'.type) # {}
                /\ UNCHANGED <<type_c2p, nb_types, fatal>>
          /\ IsTypeDealloc =>
                IF call'.flag
                THEN type_c2p' = type_c2p /\ fatal' = NoError
                ELSE IF type_c2p[call'.type] = NoType
                THEN fatal' # NoError
                ELSE /\ fatal' = NoError
                     /\ type_c2p[call'.type] = call'.tp
                     /\ type_c2p' = [type_c2p EXCEPT ![call'.type] = NoType]]_vars

\* a subclass of the bound type of U, defined in Python, was destroyed and
\* U is still registered
C20_Witness ==
    /\ call.op = "type_dealloc"
    /\ call.flag
    /\ call.type = "U"
    /\ fatal = NoError
    /\ nb_type_lookup(TM, "U") \in NewTypeObj

IsTypeInit == call = NoCall /\ call'.op = "type_init"

\* C21: a class statement in Python whose base is a type declared final
\* fails with TypeError: the process keeps running, the type_data of the new
\* type object is never initialised, and the registry is unchanged.
C21_FinalBaseRaisesTypeError ==
    [][(IsTypeInit /\ "is_final" \in type_data(TM, call'.base).flags) =>
            /\ call'.ret = "TypeError"
            /\ ~call'.flag
            /\ fatal' = NoError
            /\ nb_types' = nb_types
            /\ nb_types'[call'.tp] = NoTypeData
            /\ type_c2p' = type_c2p]_vars

\* a subclass of U, bound as final, was attempted
C21_Witness ==
    /\ call.op = "type_init"
    /\ call.ret = "TypeError"
    /\ call.type = "U"
    /\ "is_final" \in type_data(TM, call.base).flags
    /\ nb_type_lookup(TM, "U") = call.base

\* A bound type receives implicit conversions and is extended in Python
NextSubclass ==
    \/ TypeNew({"U"}, {NoType, "A"}, {{}})
    \/ ImplicitlyConvertible({"A", "B"}, {"U"})
    \/ ImplicitlyConvertiblePy({"p1"}, {"U"})
    \/ TypeInit({"tA"} \cup NewTypeObj)
    \/ TypeDealloc
    \/ Return

SpecSubclass == Init /\ [][NextSubclass]_vars

\* C22: the type_data of a subclass defined in Python equals that of its
\* base (native identity, size, alignment, flags, destructor) except that
\* is_python_type is set, has_implicit_conversions is cleared and both
\* conversion tables are empty; it points to the subclass; the type_data and
\* the tables of the base, and the registry, are unchanged.
C22_SubclassCopiesBaseDescriptor ==
    [][(IsTypeInit /\ call'.flag) =>
            LET t_b == type_data(TM, call'.base)
                t   == nb_types'[call'.tp]
            IN  /\ t.type = t_b.type
                /\ t.size = t_b.size
                /\ t.align = t_b.align
                /\ t.destruct = t_b.destruct
                /\ t.flags = (t_b.flags \cup {"is_python_type"})
                                \ {"has_implicit_conversions"}
                /\ t.implicit = << >>
                /\ t.implicit_py = << >>
                /\ t.type_py = call'.tp
                /\ \A tp \in NewTypeObj \ {call'.tp} : nb_types'[tp] = nb_types[tp]
                /\ type_c2p' = type_c2p
                /\ fatal' = NoError]_vars

\* the base has conversions of both kinds, the new subclass has none
C22_Witness ==
    /\ call.op = "type_init"
    /\ call.flag
    /\ call.base \in NewTypeObj
    /\ "has_implicit_conversions" \in nb_types[call.base].flags
    /\ nb_types[call.base].implicit # << >>
    /\ nb_types[call.base].implicit_py # << >>
    /\ nb_types[call.tp].implicit = << >>
    /\ nb_types[call.tp].implicit_py = << >>
    /\ "has_implicit_conversions" \notin nb_types[call.tp].flags

\* Types are bound with supplements of several sizes
NextMeta ==
    \/ TypeNewWith({"U", "V"}, {NoType}, {{}}, Supplement)
    \/ TypeInit(NewTypeObj)
    \/ TypeDealloc
    \/ Return

SpecMeta == Init /\ [][NextMeta]_vars

\* the supplement sizes that have a metaclass
CachedSizes == {s \in Supplement : nb_type_dict[s] # NoType}

\* C23: two existing types have the same metaclass exactly when they were
\* bound with the same supplement size; there are as many metaclasses as
\* sizes in nb_type_dict; an entry of nb_type_dict is never replaced or
\* removed, and a binding adds an entry only when its size has none, which
\* then holds the metaclass of the new type.
C23_OneMetaclassPerSupplementSize ==
    /\ [](fatal = NoError =>
            /\ \A a, b \in LiveTypes(TM) :
                  type_data(TM, a).metaclass = type_data(TM, b).metaclass
                      <=> type_data(TM, a).supplement = type_data(TM, b).supplement
            /\ \A a \in LiveTypes(TM) :
                  nb_type_dict[type_data(TM, a).supplement] = type_data(TM, a).metaclass
            /\ Cardinality(Metaclasses(TM)) = Cardinality(CachedSizes))
    /\ [][/\ \A s \in CachedSizes : nb_type_dict'[s] = nb_type_dict[s]
          /\ (IsTypeNew /\ call'.ret # NoType) =>
                LET s == nb_types'[call'.tp].supplement
                IN  /\ \A r \in Supplement \ {s} : nb_type_dict'[r] = nb_type_dict[r]
                    /\ nb_type_dict'[s] = nb_types'[call'.tp].metaclass
                    /\ s \notin CachedSizes =>
                          nb_type_dict'[s] \notin Metaclasses(TM)
          /\ ~IsTypeNew => nb_type_dict' = nb_type_dict]_vars

\* U and V were bound with one supplement size and share a metaclass that is
\* not the one of the types without supplement
C23_Witness ==
    /\ call.op = "type_new"
    /\ fatal = NoError
    /\ type_c2p["U"] # NoType
    /\ type_c2p["V"] # NoType
    /\ nb_types[type_c2p["U"]].supplement = nb_types[type_c2p["V"]].supplement
    /\ nb_types[type_c2p["U"]].metaclass = nb_types[type_c2p["V"]].metaclass
    /\ nb_types[type_c2p["U"]].metaclass # MetaSeq[1]
    /\ Cardinality(CachedSizes) = 3

----------------------------------------------------------------------------
(* nb_type_get on wrappers that are ready or not ready                       *)

NextGet ==
    \/ TypeNew({"U"}, {NoType}, {{"is_destructible"}})
    \/ ImplicitlyConvertiblePy({"p1"}, {"U"})
    \/ Put({"U", "D"}, {101}, {"take_ownership"}, {}, {FALSE})
    \/ Relinquish
    \/ Get({"U", "A"}, Inst, SUBSET cast_flags, {FALSE}, {{"p1"}})
    \/ Decref
    \/ Return

SpecGet == Init /\ [][NextGet]_vars

IsGet == call = NoCall /\ call'.op = "get"

\* the wrapper w is an instance of the bound type of T or of a subtype
InstanceOf(w, T) ==
    \/ nb_type_data(inst[w].tp).type = T
    \/ /\ type_c2p[T] # NoType
       /\ PyType_IsSubtype(inst[w].tp, type_c2p[T])

\* C24: nb_type_get(T, w, flags) on a wrapper w of type T or of a subtype
\* returns true with w's payload address exactly when w is ready or flags
\* contain construct; on a wrapper that is not ready, without construct, it
\* returns false, examines no conversion entry, constructs nothing, and no
\* wrapper changes.
C24_GetNeedsReadyOrConstruct ==
    [][(IsGet /\ call'.src \in Live /\ InstanceOf(call'.src, call'.type)) =>
            /\ call'.ok <=> (inst[call'.src].ready \/ "construct" \in call'.flags)
            /\ call'.ok => call'.out = inst[call'.src].ptr
            /\ call'.tried = << >>
            /\ call'.cleanup = << >>
            /\ inst' = inst
            /\ inst_c2p' = inst_c2p
            /\ fatal' = NoError]_vars

\* a cast with convert of a wrapper of U that is not ready failed although U
\* has a conversion whose predicate accepts the wrapper
C24_Witness ==
    /\ call.op = "get"
    /\ ~call.ok
    /\ call.type = "U"
    /\ call.flags = {"convert"}
    /\ call.src \in Live
    /\ inst[call.src].tp = type_c2p["U"]
    /\ ~inst[call.src].ready
    /\ nb_types[type_c2p["U"]].implicit_py = <<"p1">>

----------------------------------------------------------------------------
(* Implicit conversions to U from native types and through predicates       *)

NextConvert ==
    \/ TypeNew({"U"}, {NoType}, {{"is_destructible"}})
    \/ ImplicitlyConvertible({"A", "D", "B"}, {"U"})
    \/ ImplicitlyConvertiblePy(ImplicitPred, {"U"})
    \/ Put({"D"}, {101}, {"reference"}, {}, {FALSE})
    \/ Get({"U"}, {1, PyInt}, {{"convert"}}, BOOLEAN, SUBSET ImplicitPred)
    \/ Return

SpecConvert == Init /\ [][NextConvert]_vars

\* a cast that reached the search for an implicit conversion
IsConversion ==
    /\ IsGet
    /\ call'.src # Py_None
    /\ ~(call'.src \in Live /\ InstanceOf(call'.src, call'.type))
    /\ "convert" \in call'.flags
    /\ type_c2p[call'.type] \in NewTypeObj
    /\ "has_implicit_conversions" \in nb_types[type_c2p[call'.type]].flags

\* the entries of one kind among the examined ones, in the order examined
TriedOf(kind) ==
    LET sel == SelectSeq(call'.tried, LAMBDA e : e[1] = kind)
    IN  [i \in 1 .. Len(sel) |-> sel[i][2]]

KindRank(kind) ==
    IF kind = "exact" THEN 1 ELSE IF kind = "subtype" THEN 2 ELSE 3

IsPrefix(s, t) == Len(s) <= Len(t) /\ \A i \in 1 .. Len(s) : s[i] = t[i]

\* the native type v is the type of the source
ExactMatch(v) ==
    call'.src \in Live /\ nb_type_data(inst[call'.src].tp).type = v

\* the type of the source is a subtype of the bound type of v
SubtypeMatch(v) ==
    /\ call'.src \in Live
    /\ type_c2p[v] # NoType
    /\ PyType_IsSubtype(inst[call'.src].tp, type_c2p[v])

Last(s) == s[Len(s)]

\* C25: the search examines exact native-type matches first, then
\* native-type matches through the subtype relation, then the predicates,
\* each table from its first entry on and stopping at the first match; when
\* a native-type entry matches the source no predicate is invoked.
C25_NativeEntriesBeforePredicates ==
    [][IsConversion =>
        LET dst     == nb_types[type_c2p[call'.type]]
            Native  == {dst.implicit[i] : i \in 1 .. Len(dst.implicit)}
            exact   == \E v \in Native : ExactMatch(v)
            subtype == \E v \in Native : SubtypeMatch(v)
        IN  /\ \A i, j \in 1 .. Len(call'.tried) :
                  i < j => KindRank(call'.tried[i][1]) <= KindRank(call'.tried[j][1])
            /\ IsPrefix(TriedOf("exact"), dst.implicit)
            /\ IsPrefix(TriedOf("subtype"), dst.implicit)
            /\ IsPrefix(TriedOf("predicate"), dst.implicit_py)
            /\ exact =>
                  /\ TriedOf("subtype") = << >>
                  /\ ExactMatch(Last(TriedOf("exact")))
                  /\ \A i \in 1 .. Len(TriedOf("exact")) - 1 :
                        ~ExactMatch(TriedOf("exact")[i])
            /\ (~exact /\ subtype) =>
                  /\ TriedOf("exact") = dst.implicit
                  /\ SubtypeMatch(Last(TriedOf("subtype")))
                  /\ \A i \in 1 .. Len(TriedOf("subtype")) - 1 :
                        ~SubtypeMatch(TriedOf("subtype")[i])
            /\ (exact \/ subtype) => TriedOf("predicate") = << >>
            /\ (~exact /\ ~subtype) =>
                  /\ call'.src \in Live /\ dst.implicit # << >> =>
                        /\ TriedOf("exact") = dst.implicit
                        /\ TriedOf("subtype") = dst.implicit
                  /\ \A i \in 1 .. Len(TriedOf("predicate")) - 1 :
                        TriedOf("predicate")[i] \notin call'.accepts
                  /\ \/ /\ TriedOf("predicate") = dst.implicit_py
                           /\ \A i \in 1 .. Len(dst.implicit_py) - 1 :
                                 dst.implicit_py[i] \notin call'.accepts
                        \/ /\ TriedOf("predicate") # << >>
                           /\ Last(TriedOf("predicate")) \in call'.accepts]_vars

\* U converts from A, then from D, and through p1; the source is a wrapper of
\* D that p1 accepts too: the entry of D was selected as an exact match, after
\* the entry of A was passed over, and the conversion succeeded
C25_Witness ==
    /\ call.op = "get"
    /\ call.ok
    /\ call.type = "U"
    /\ call.src \in Live
    /\ nb_type_data(inst[call.src].tp).type = "D"
    /\ nb_types[type_c2p["U"]].implicit = <<"A", "D">>
    /\ nb_types[type_c2p["U"]].implicit_py # << >>
    /\ call.tried = <<<<"exact", "A">>, <<"exact", "D">>>>
    /\ call.cleanup # << >>

NextReentrant ==
    \/ Put({"A", "B", "D"}, {101}, {"reference", "take_ownership"}, {}, {FALSE})
    \/ KeepAliveCallback({1}, {101}, {"cb1"})
    \/ DecrefReentrant({"A", "B", "D"}, {101}, {"cb1"})
    \/ Decref
    \/ Return

SpecReentrant == Init /\ [][NextReentrant]_vars

\* the step is a deallocation of wrapper call'.arg during which the
\* destructor or a callback re-entered
IsReentrantDealloc == call = NoCall /\ call'.op = "decref_reentrant"

\* how often wrapper w occurs in the entry of address p after the step
OccurrencesAfter(p, w) ==
    IF p \in DOMAIN inst_c2p'
    THEN Cardinality({i \in 1 .. Len(inst_c2p'[p].list) : inst_c2p'[p].list[i] = w})
    ELSE 0

\* C27: a deallocation of W whose destructor or release callback re-enters,
\* to create a wrapper (also at W's own payload address) or to deallocate
\* another one, is not fatal, removes W from the instance map, and leaves
\* every live wrapper listed exactly once under its address and nowhere else.
C27_ReentrantDeallocKeepsMap ==
    [][IsReentrantDealloc =>
          /\ fatal' = NoError
          /\ inst'[call'.arg] = NoInst
          /\ \A p \in Addr : OccurrencesAfter(p, call'.arg) = 0
          /\ \A w \in Inst : \A p \in Addr :
                OccurrencesAfter(p, w) =
                    IF inst'[w].tp # NoType /\ inst'[w].ptr = p THEN 1 ELSE 0
          /\ \A p \in DOMAIN inst_c2p' : inst_c2p'[p].list # << >>]_vars

\* the nested put at W's address made a wrapper of another type; W is gone
\* and the new wrapper is what the entry of the address lists
C27_Witness ==
    /\ call.op = "decref_reentrant"
    /\ call.flag
    /\ call.ret \in Live
    /\ inst[call.arg] = NoInst
    /\ inst[call.ret].ptr = call.value
    /\ \E i \in 1 .. Len(log) :
          log[i].ev = "unmap" /\ log[i].w = call.arg /\ log[i].p = call.value
    /\ inst_c2p[call.value] = nb_mark_seq(<<call.ret>>)
    /\ fatal = NoError

\* C28: a put for W's payload address that the destructor or a release
\* callback of W makes while W is deallocated never returns W.
C28_NestedPutNeverReturnsDying ==
    [][(IsReentrantDealloc /\ call'.flag /\ call'.value = inst[call'.arg].ptr)
          => call'.ret # call'.arg]_vars

(***************************************************************************)
(* Destruction of instances of destructible and non-destructible types.    *)
(***************************************************************************)
NextDestruct ==
    \/ TypeNew({"U"}, {NoType},
               {{}, {"is_destructible"}, {"is_destructible", "has_destruct"}})
    \/ Put({"U", "B"}, {101}, {"take_ownership", "reference"}, {}, {FALSE})
    \/ Destruct
    \/ Decref
    \/ Return

SpecDestruct == Init /\ [][NextDestruct]_vars

\* the step destructs wrapper call'.arg, whose destruct flag is set: by
\* nb_inst_destruct, or by the deallocation that the last Py_DECREF runs
IsDestruction ==
    /\ call = NoCall
    /\ call'.op \in {"destruct", "decref"}
    /\ inst[call'.arg].destruct
    /\ call'.op = "decref" => inst[call'.arg].refcnt = 1

\* the messages of the two checks
NonDestructible ==
    {"inst_dealloc(): destructor of a non-destructible type",
     "nb_inst_destruct(): destructor of a non-destructible type"}

\* calls of the type's destructor function in the step
DestructorCalls == {i \in 1 .. Len(log') : log'[i].ev = "t_destruct"}

\* C29: destructing a wrapper with destruct set, at deallocation or by
\* nb_inst_destruct, is fatal when the type is not destructible, and the
\* destructor function is not called then; for a destructible type the step
\* does not raise that error, and the destructor function is called if the
\* type has one.
C29_NonDestructibleIsFatal ==
    [][IsDestruction =>
          LET flags == nb_type_data(inst[call'.arg].tp).flags
          IN  IF "is_destructible" \notin flags
              THEN fatal' \in NonDestructible /\ DestructorCalls = {}
              ELSE /\ fatal' \notin NonDestructible
                   /\ fatal' = NoError
                   /\ (DestructorCalls # {}) <=> ("has_destruct" \in flags)]_vars

\* nb_inst_destruct was called on a wrapper, with destruct set, of a type
\* that was bound as non-destructible: the process has aborted
C29_Witness ==
    /\ call.op = "destruct"
    /\ call.flag
    /\ inst[call.arg].tp \in NewTypeObj
    /\ "is_destructible" \notin nb_type_data(inst[call.arg].tp).flags
    /\ inst[call.arg].destruct
    /\ fatal \in NonDestructible

(***************************************************************************)
(* The encoding of the entries of inst_c2p.                                *)
(***************************************************************************)
\* the position of wrapper w in the sequence s, 0 if it is not in it
PosIn(s, w) ==
    IF \E i \in 1 .. Len(s) : s[i] = w
    THEN CHOOSE i \in 1 .. Len(s) : s[i] = w
    ELSE 0

\* the wrappers of `old` that are still in `new` come first in `new`, in the
\* order they had in `old`: removals unlink, registrations append
KeepsOrder(old, new) ==
    \A j \in 1 .. Len(new) :
        PosIn(old, new[j]) # 0 =>
            \A i \in 1 .. (j - 1) :
                /\ PosIn(old, new[i]) # 0
                /\ PosIn(old, new[i]) < PosIn(old, new[j])

\* every entry is a direct reference to one wrapper or a list without
\* duplicates that is not empty
EntriesWellFormed ==
    \A p \in DOMAIN inst_c2p :
        /\ inst_c2p[p].list # << >>
        /\ ~nb_is_seq(inst_c2p[p]) => Len(inst_c2p[p].list) = 1
        /\ \A i, j \in 1 .. Len(inst_c2p[p].list) :
              inst_c2p[p].list[i] = inst_c2p[p].list[j] => i = j

\* how the entry of address p changes in a step
EntryStep(p) ==
    /\ (p \notin DOMAIN inst_c2p /\ p \in DOMAIN inst_c2p') =>
          /\ ~nb_is_seq(inst_c2p'[p])
          /\ Len(inst_c2p'[p].list) = 1
    /\ (p \in DOMAIN inst_c2p /\ p \in DOMAIN inst_c2p') =>
          /\ nb_is_seq(inst_c2p[p]) => nb_is_seq(inst_c2p'[p])
          /\ inst_c2p'[p] # inst_c2p[p] => nb_is_seq(inst_c2p'[p])
          /\ KeepsOrder(inst_c2p[p].list, inst_c2p'[p].list)
          /\ (\A i \in 1 .. Len(inst_c2p[p].list) :
                 inst'[inst_c2p[p].list[i]].tp # NoType) =>
                SubSeq(inst_c2p'[p].list, 1, Len(inst_c2p[p].list)) = inst_c2p[p].list
    /\ (p \in DOMAIN inst_c2p /\ p \notin DOMAIN inst_c2p') =>
          \A i \in 1 .. Len(inst_c2p[p].list) :
              inst'[inst_c2p[p].list[i]].tp = NoType
    /\ (p \in DOMAIN inst_c2p') <=>
          (\E w \in Inst : inst'[w].tp # NoType /\ inst'[w].ptr = p)

\* C30: an entry of inst_c2p is a direct reference while one wrapper has been
\* registered under the address; the second registration turns it into a
\* list, and registrations append, so the list is in registration order; an
\* entry in list form stays in list form, also when removals leave one
\* wrapper; the entry is erased exactly when its last wrapper is removed, and
\* no entry holds an empty list.
C30_EntryEncoding ==
    [](EntriesWellFormed) /\ [][\A p \in Addr : EntryStep(p)]_vars

\* three wrappers were registered at 101 and two of them deallocated: the
\* entry is a list that holds the one wrapper left, which was not the first
C30_Witness ==
    /\ call.op = "decref"
    /\ 101 \in DOMAIN inst_c2p
    /\ nb_is_seq(inst_c2p[101])
    /\ Len(inst_c2p[101].list) = 1
    /\ inst_c2p[101].list[1] = 3
    /\ \E i \in 1 .. Len(log) : log[i].ev = "unmap" /\ log[i].p = 101
    /\ fatal = NoError

(***************************************************************************)
(* Wrappers of a type and of its subtype at one address.                   *)
(***************************************************************************)
NextAlias ==
    \/ Put({"A", "D"}, {101}, {"reference", "take_ownership"}, {}, {FALSE})
    \/ Wrap({"tA", "tD"}, {101})
    \/ Decref
    \/ Return

SpecAlias == Init /\ [][NextAlias]_vars

\* a live wrapper of declared type tp is registered at address p
HasWrapperOf(p, tp) ==
    \E w \in Live : inst[w].ptr = p /\ inst[w].tp = tp

\* C31: with a wrapper of A and a wrapper of its subtype D live at one
\* address, a put for A with a policy other than copy returns the wrapper
\* whose declared type is A, whichever of the two was created first.
C31_ResolvesDeclaredType ==
    [][(/\ call = NoCall
        /\ call'.op = "put"
        /\ call'.type = "A"
        /\ call'.rvp # "copy"
        /\ HasWrapperOf(call'.value, "tA")
        /\ HasWrapperOf(call'.value, "tD"))
          => /\ call'.ret \in Live
             /\ inst[call'.ret].tp = "tA"]_vars

(***************************************************************************)
(* Ownership handed to native code and taken back.                         *)
(***************************************************************************)
NextCycle ==
    \/ PutUnique({"A", "B"}, {101})
    \/ Relinquish
    \/ PutUniqueReturned({"A", "B"})
    \/ Decref
    \/ Return

SpecCycle == Init /\ [][NextCycle]_vars

\* the step ran no destructor, released no memory and freed no wrapper
NothingDestroyed ==
    \A i \in 1 .. Len(log') :
        log'[i].ev \notin {"dealloc", "destruct", "t_destruct", "delete", "free"}

\* relinquish_ownership(cpp_delete = true) succeeds in the step
IsTransfer ==
    /\ call = NoCall
    /\ call'.op = "relinquish_ownership"
    /\ call'.flag
    /\ call'.ret # NULL

\* put_unique(T, p, cpp_delete = true) directly follows the
\* relinquish_ownership(cpp_delete = true) that succeeded on wrapper call.ret,
\* whose type is T and whose payload is at p
IsReclaimAfterTransfer ==
    /\ call.op = "relinquish_ownership"
    /\ call.flag
    /\ call.ret # NULL
    /\ call'.op = "put_unique"
    /\ call'.flag
    /\ call'.type = nb_type_data(inst[call.ret].tp).type
    /\ call'.value = inst[call.ret].ptr

\* C32: a relinquish_ownership(cpp_delete = true) that succeeds leaves the
\* wrapper registered at its address; the put_unique(cpp_delete = true) that
\* follows for the address returns that wrapper, creates none, and sets
\* ready, destruct and cpp_delete again; neither step destroys anything, so
\* the cycle can repeat.
C32_ReclaimAfterTransfer ==
    [][/\ IsTransfer =>
            /\ inst_c2p' = inst_c2p
            /\ Occurrences(inst_c2p', inst[call'.arg].ptr, call'.arg) = 1
            /\ inst'[call'.arg].tp = inst[call'.arg].tp
            /\ NothingDestroyed
            /\ fatal' = NoError
       /\ IsReclaimAfterTransfer =>
            /\ call'.ret = call.ret
            /\ ~call'.is_new
            /\ inst'[call.ret].ready
            /\ inst'[call.ret].destruct
            /\ inst'[call.ret].cpp_delete
            /\ inst'[call.ret].refcnt = inst[call.ret].refcnt + 1
            /\ inst_c2p' = inst_c2p
            /\ NothingDestroyed
            /\ fatal' = NoError]_vars

\* the wrapper that was handed to native code has been taken back
C32_Witness ==
    /\ call.op = "put_unique"
    /\ call.flag
    /\ call.arg \in Live
    /\ call.ret = call.arg
    /\ ~call.is_new
    /\ inst[call.ret].ready /\ inst[call.ret].destruct /\ inst[call.ret].cpp_delete
    /\ inst[call.ret].refcnt = 2
    /\ fatal = NoError

(***************************************************************************)
(* reference_internal: the new wrapper keeps the self object alive.        *)
(***************************************************************************)
NextInternal ==
    \/ Put({"A"}, {101}, {"take_ownership"}, {}, {FALSE})
    \/ Put({"B", "D"}, {101}, {"reference_internal"}, Inst, {FALSE})
    \/ Decref
    \/ Return

SpecInternal == Init /\ [][NextInternal]_vars

\* the keep_alive list of wrapper w holds a reference to wrapper s
HasEdge(ka, w, s) ==
    /\ w \in DOMAIN ka
    /\ \E i \in 1 .. Len(ka[w]) :
          ka[w][i].payload = s /\ ka[w][i].callback = NoCallback

\* the step is a put under reference_internal that made a wrapper while a
\* self object was current
IsInternalPut ==
    /\ call = NoCall
    /\ call'.op = "put"
    /\ call'.rvp = "reference_internal"
    /\ call'.is_new
    /\ call'.self_py # NULL

\* every edge leads from a live wrapper to a live wrapper that holds at
\* least the references of the edges to it
EdgesHoldPatients ==
    \A w \in DOMAIN keep_alive :
        /\ w \in Live
        /\ \A i \in 1 .. Len(keep_alive[w]) :
              keep_alive[w][i].callback = NoCallback =>
                  /\ keep_alive[w][i].payload \in Live
                  /\ inst[keep_alive[w][i].payload].refcnt
                         >= EdgeRefs(keep_alive[w][i].payload)

\* C33: a put under reference_internal that creates wrapper W while S is the
\* self object links W to S in the keep_alive table and takes one reference
\* to S; the link is dropped only when W is deallocated; S is not
\* deallocated while W is live.
C33_InternalReferenceKeepsSelfAlive ==
    /\ [](EdgesHoldPatients)
    /\ [][/\ IsInternalPut =>
               /\ keep_alive'[call'.ret] = <<WeakrefSeq(call'.self_py, NoCallback)>>
               /\ inst'[call'.ret].clear_keep_alive
               /\ inst'[call'.self_py].refcnt = inst[call'.self_py].refcnt + 1
          /\ \A w, s \in Inst :
               (HasEdge(keep_alive, w, s) /\ ~HasEdge(keep_alive', w, s)) =>
                   /\ inst'[w].tp = NoType
                   /\ \E i \in 1 .. Len(log') :
                         log'[i].ev = "dealloc" /\ log'[i].w = w
          /\ \A w, s \in Inst :
               (HasEdge(keep_alive, w, s) /\ inst'[w].tp # NoType) =>
                   inst'[s].tp # NoType]_vars

\* the caller has dropped its own reference to the self object S; S is live
\* through the one reference that the edge from W holds
C33_Witness ==
    /\ call.op = "decref"
    /\ call.arg \in Live
    /\ inst[call.arg].refcnt = 1
    /\ EdgeRefs(call.arg) = 1
    /\ \E w \in Live : HasEdge(keep_alive, w, call.arg)
    /\ fatal = NoError

\* the step is a put under copy or move in which the constructor of the
\* type threw: the wrapper made for the result was dropped again
IsThrowingPut ==
    /\ call = NoCall
    /\ call'.op = "put"
    /\ call'.rvp \in {"copy", "move"}
    /\ call'.thrown

\* C34: when the copy or move constructor throws during a put under copy or
\* move, the put returns failure; the wrapper that was allocated for the
\* result is deallocated, its destructor is not called and no memory is
\* released with operator delete; the wrappers and the instance map are as
\* before the call.
C34_ThrowingConstructorLeavesNoTrace ==
    [][IsThrowingPut =>
          /\ call'.ret = NULL
          /\ ~call'.is_new
          /\ \E i \in 1 .. Len(log') :
                /\ log'[i].ev = "free"
                /\ inst[log'[i].w].tp = NoType
          /\ \A i \in 1 .. Len(log') :
                log'[i].ev \notin {"destruct", "t_destruct", "delete", "copy", "move"}
          /\ inst' = inst
          /\ inst_c2p' = inst_c2p
          /\ keep_alive' = keep_alive
          /\ fatal' = NoError]_vars

\* the move constructor threw while a wrapper of another type was registered
\* at the address of the source
C34_Witness ==
    /\ call.op = "put"
    /\ call.rvp = "move"
    /\ call.thrown
    /\ call.ret = NULL
    /\ call.value \in DOMAIN inst_c2p
    /\ \E i \in 1 .. Len(log) : log[i].ev = "unmap"
    /\ fatal = NoError

(***************************************************************************)
(* The destructor of a payload runs at most once.                          *)
(***************************************************************************)
NextOnce ==
    \/ Put({"A"}, {101}, {"take_ownership", "copy"}, {}, {FALSE})
    \/ SetState(BOOLEAN, BOOLEAN)
    \/ Destruct
    \/ Relinquish
    \/ Decref
    \/ Return

SpecOnce == Init /\ [][NextOnce]_vars

\* calls of the destructor function on the payload of wrapper w in the step
DestructorCallsOn(w) ==
    {i \in 1 .. Len(log') : log'[i].ev = "t_destruct" /\ log'[i].w = w}

\* the entry points that initialise a payload anew
ReInit == {"put", "put_unique", "set_state", "alloc", "wrap"}

\* C35: a step calls the destructor of a wrapper's payload at most once, and
\* only if the wrapper's destruct flag was set; after the call the flag is
\* clear or the wrapper is freed; nb_inst_destruct, relinquish_ownership and
\* deallocation never set the flag.  Hence the destructor runs at most once
\* until the wrapper is initialised anew; nb_inst_destruct leaves destruct and
\* ready clear, and a wrapper whose destruct flag is clear is destructed and
\* deallocated without a destructor call.
C35_DestructorRunsOnce ==
    [][\A w \in Inst :
          /\ Cardinality(DestructorCallsOn(w)) <= 1
          /\ DestructorCallsOn(w) # {} =>
                /\ inst[w].destruct
                /\ inst'[w].tp = NoType \/ ~inst'[w].destruct
          /\ (inst[w].tp # NoType /\ ~inst[w].destruct) =>
                DestructorCallsOn(w) = {}
          /\ (call'.op \notin ReInit /\ inst[w].tp # NoType /\ ~inst[w].destruct) =>
                ~inst'[w].destruct
          /\ (call'.op = "destruct" /\ call'.arg = w /\ fatal' = NoError) =>
                ~inst'[w].destruct /\ ~inst'[w].ready]_vars

\* nb_inst_destruct on a wrapper that was destructed before (cpp_delete is
\* still set, destruct is clear) has run nothing
C35_Witness ==
    /\ call.op = "destruct"
    /\ ~call.flag
    /\ call.arg \in Live
    /\ inst[call.arg].cpp_delete
    /\ ~inst[call.arg].destruct
    /\ ~inst[call.arg].ready
    /\ log = << >>
    /\ fatal = NoError

\* C36: a wrapper with co-located storage never has cpp_delete set.
C36_InternalNeverDeleted ==
    \A w \in Live : inst[w].internal => ~inst[w].cpp_delete

(***************************************************************************)
(* A release callback that links to the nurse again.                       *)
(***************************************************************************)
NextRelink ==
    \/ Put({"A", "B"}, {101}, {"take_ownership"}, {}, {FALSE})
    \/ KeepAlive({1, 2}, {1, 2})
    \/ KeepAliveCallback({1}, {101}, {"cb1"})
    \/ DecrefRelinking({"cb1"}, {"cb2"})
    \/ Decref
    \/ Return

SpecRelink == Init /\ [][NextRelink]_vars

\* C37: a live wrapper has clear_keep_alive set exactly when the keep_alive
\* table holds a list, not empty, under it; the table holds nothing under a
\* wrapper that was freed.
C37_KeepAliveTableMatchesFlag ==
    \A w \in Inst :
        IF inst[w].tp # NoType
        THEN inst[w].clear_keep_alive <=>
                 (w \in DOMAIN keep_alive /\ keep_alive[w] # << >>)
        ELSE w \notin DOMAIN keep_alive

(***************************************************************************)
(* Attributes of bound types.                                              *)
(***************************************************************************)
NextAttr ==
    \/ SetAttr(AttrType, AttrName, {NoAttr, Object(1), Object(2), StaticProperty(1)})
    \/ Return

SpecAttr == Init /\ [][NextAttr]_vars

IsSetAttr == call = NoCall /\ call'.op = "setattr"

\* what the name of the call is bound to on the type before the call
BoundBefore == PyType_Lookup(SM, call'.obj, call'.name)

\* C38: an assignment or a deletion, through a type, of a name that starts
\* with '@' and is bound on the type to something other than a static
\* property fails with AttributeError and changes no attribute; the
\* assignment of such a name that is not bound yet succeeds and binds it;
\* nb_static_property_enabled is true after every call.
C38_AtAttributesAreFrozen ==
    [][IsSetAttr =>
          /\ (StartsWithAt(call'.name) /\ BoundBefore.kind = "object") =>
                /\ call'.rv = -1
                /\ call'.err = "AttributeError"
                /\ tp_dict' = tp_dict
          /\ (StartsWithAt(call'.name) /\ BoundBefore = NoAttr
                 /\ call'.value # NoAttr) =>
                /\ call'.rv = 0
                /\ call'.err = NoError
                /\ tp_dict' = [tp_dict EXCEPT ![call'.obj][call'.name] = call'.value]
          /\ nb_static_property_enabled'
          /\ call'.enabled]_vars

\* the deletion, through the subtype, of an '@' name that is bound on the
\* base type was refused
C38_Witness ==
    /\ call.op = "setattr"
    /\ call.obj = "tD"
    /\ call.name = <<"@", "e">>
    /\ call.value = NoAttr
    /\ call.rv = -1
    /\ tp_dict["tA"][call.name] = Object(1)
    /\ tp_dict["tD"][call.name] = NoAttr
    /\ nb_static_property_enabled

(***************************************************************************)
(* Storage layout of a wrapper (inst_new_impl, inst_ptr).  Addresses are   *)
(* 64-bit words and nb_inst::offset is a signed 32-bit word; both are kept *)
(* at their width as little-endian sequences of 16-bit limbs, so that the  *)
(* casts, the wrap-around of the arithmetic and the sign extension are the *)
(* ones the code performs.                                                 *)
(***************************************************************************)

\* one limb holds 16 bits
Limb == 65536

Word64 == [1..4 -> 0..(Limb - 1)]

Zero64 == <<0, 0, 0, 0>>

\* a small non-negative number as a 64-bit word
ToWord(n) == <<n % Limb, n \div Limb, 0, 0>>

\* a + b modulo 2^64
Add64(a, b) ==
    LET s1 == a[1] + b[1]
        s2 == a[2] + b[2] + (s1 \div Limb)
        s3 == a[3] + b[3] + (s2 \div Limb)
        s4 == a[4] + b[4] + (s3 \div Limb)
    IN  <<s1 % Limb, s2 % Limb, s3 % Limb, s4 % Limb>>

\* a - b modulo 2^64 (two's complement)
Sub64(a, b) ==
    Add64(a, Add64(<<Limb - 1 - b[1], Limb - 1 - b[2],
                     Limb - 1 - b[3], Limb - 1 - b[4]>>, ToWord(1)))

\* a / d for an unsigned 64-bit a and a small divisor d (long division)
Div64(a, d) ==
    LET c4 == a[4]
        c3 == (c4 % d) * Limb + a[3]
        c2 == (c3 % d) * Limb + a[2]
        c1 == (c2 % d) * Limb + a[1]
    IN  <<c1 \div d, c2 \div d, c3 \div d, c4 \div d>>

\* a * d modulo 2^64 for a small factor d
Mul64(a, d) ==
    LET p1 == a[1] * d
        p2 == a[2] * d + (p1 \div Limb)
        p3 == a[3] * d + (p2 \div Limb)
        p4 == a[4] * d + (p3 \div Limb)
    IN  <<p1 % Limb, p2 % Limb, p3 % Limb, p4 % Limb>>

\* (int32_t) x: the low 32 bits of x
Int32Cast(x) == <<x[1], x[2]>>

\* the conversion of an int32_t to intptr_t: sign extension
SignExtend(o) ==
    LET s == IF o[2] >= Limb \div 2 THEN Limb - 1 ELSE 0
    IN  <<o[1], o[2], s, s>>

\* sizeof(nb_inst) == sizeof(PyObject) + sizeof(void *) with 8-byte pointers
SizeofNbInst == 24

\* what a read of memory that was never written can produce
Garbage == {Zero64, <<57005, 48879, 0, 0>>}

NoLayout == [self |-> Zero64, offset |-> <<0, 0>>, direct |-> FALSE,
             internal |-> FALSE, word_at |-> Zero64, word |-> Zero64]

\* inst_new_impl() with the layout spelled out.  'self' is the block the
\* allocator returned, 'value' the caller's address (Zero64: co-located
\* storage), 'moved' what PyObject_Realloc() returns for the block that gains
\* a trailing word (Zero64: out of memory).
inst_new_impl_always_direct(self, value, align, gc, moved) ==
    IF value = Zero64
    THEN LET payload == Mul64(Div64(Add64(Add64(self, ToWord(SizeofNbInst)),
                                          ToWord(align - 1)), align), align)
         IN  [ok |-> TRUE,
              w  |-> [self |-> self,
                      offset |-> Int32Cast(Sub64(payload, self)),
                      direct |-> TRUE, internal |-> TRUE,
                      word_at |-> Zero64, word |-> Zero64]]
    ELSE [ok |-> TRUE,
          w  |-> [self |-> self,
                  offset |-> Int32Cast(Sub64(value, self)),
                  direct |-> TRUE, internal |-> FALSE,
                  word_at |-> Zero64, word |-> Zero64]]

inst_new_impl_layout(self, value, align, gc, moved) ==
    IF value = Zero64
    THEN LET payload == Mul64(Div64(Add64(Add64(self, ToWord(SizeofNbInst)),
                                          ToWord(align - 1)), align), align)
         IN  [ok |-> TRUE,
              w  |-> [self |-> self,
                      offset |-> Int32Cast(Sub64(payload, self)),
                      direct |-> TRUE, internal |-> TRUE,
                      word_at |-> Zero64, word |-> Zero64]]
    ELSE LET offset == Int32Cast(Sub64(value, self))
         IN  IF Add64(self, SignExtend(offset)) = value
             THEN [ok |-> TRUE,
                   w  |-> [self |-> self, offset |-> offset,
                           direct |-> TRUE, internal |-> FALSE,
                           word_at |-> Zero64, word |-> Zero64]]
             ELSE IF ~gc /\ moved = Zero64
             THEN [ok |-> FALSE, w |-> NoLayout]
             ELSE LET self_2 == IF gc THEN self ELSE moved
                  IN  [ok |-> TRUE,
                       w  |-> [self |-> self_2,
                               offset |-> Int32Cast(ToWord(SizeofNbInst)),
                               direct |-> FALSE, internal |-> FALSE,
                               word_at |-> Add64(self_2, ToWord(SizeofNbInst)),
                               word |-> value]]

\* inst_ptr() on the layout: the addresses the decoding can produce
inst_ptr_layout(w) ==
    LET ptr == Add64(w.self, SignExtend(w.offset))
    IN  IF w.direct THEN {ptr}
        ELSE IF ptr = w.word_at THEN {w.word}
        ELSE Garbage

LayoutCall(self, value, align, gc, r, p) ==
    [op |-> "inst_new_layout", self |-> self, value |-> value,
     align |-> align, gc |-> gc, ok |-> r.ok, w |-> r.w, ptr |-> p]

\* inst_new_impl(tp, value) followed by inst_ptr() on the new wrapper
InstNewLayout(selfs, deltas, aligns) ==
    /\ Running
    /\ \E self \in selfs, delta \in deltas, align \in aligns, gc \in BOOLEAN,
          moved \in selfs \cup {Zero64}, colocated \in BOOLEAN :
          \E value \in {IF colocated THEN Zero64 ELSE Add64(self, delta)} :
             \E r \in {inst_new_impl_layout(self, value, align, gc, moved)} :
                \E p \in (IF r.ok THEN inst_ptr_layout(r.w) ELSE {Zero64}) :
                   call' = LayoutCall(self, value, align, gc, r, p)
    /\ UNCHANGED <<inst, inst_c2p, type_c2p, keep_alive, nb_types, nb_type_dict,
                   tp_dict, nb_static_property_enabled, fatal, log>>

\* blocks the allocator can return
LayoutSelf == {<<4096, 21845, 21845, 0>>, <<65520, 65535, 32767, 0>>}

\* distances from the header to a caller's payload: near ones, the four
\* around the limits of a signed 32-bit number, and far ones whose low 32
\* bits look like a near one
LayoutDelta ==
    {<<40, 0, 0, 0>>, <<61440, 65535, 65535, 65535>>,
     <<65535, 32767, 0, 0>>, <<0, 32768, 0, 0>>,
     <<0, 32768, 65535, 65535>>, <<65535, 32767, 65535, 65535>>,
     <<0, 0, 1, 0>>, <<40, 0, 1, 0>>, <<0, 0, 0, 1>>}

LayoutAlign == {1, 8, 16, 64}

NextLayout ==
    \/ InstNewLayout(LayoutSelf, LayoutDelta, LayoutAlign)
    \/ Return

SpecLayout == Init /\ [][NextLayout]_vars

IsLayout == call.op = "inst_new_layout"

\* the signed 64-bit number d lies in -2^31 .. 2^31 - 1
FitsInt32(d) ==
    \/ d[3] = 0 /\ d[4] = 0 /\ d[2] < Limb \div 2
    \/ d[3] = Limb - 1 /\ d[4] = Limb - 1 /\ d[2] >= Limb \div 2

\* p is the first multiple of align at or after the address a
FirstAlignedFrom(p, a, align) ==
    LET d == Sub64(p, a)
    IN  /\ d[2] = 0 /\ d[3] = 0 /\ d[4] = 0
        /\ d[1] < align
        /\ p[1] % align = 0

\* C39: the address inst_ptr() decodes from a wrapper that inst_new_impl()
\* created is the intended one.  With external storage it is the caller's
\* address; the offset is stored directly exactly when the distance from the
\* header fits a signed 32-bit number, and otherwise the wrapper is indirect
\* and its trailing word holds the address.  With co-located storage it is
\* the first multiple of the type's alignment at or after the header's end.
C39_DecodedPayloadAddress ==
    IsLayout =>
        /\ call.ok =>
              IF call.value # Zero64
              THEN /\ call.ptr = call.value
                   /\ ~call.w.internal
                   /\ call.w.direct
                         <=> FitsInt32(Sub64(call.value, call.self))
                   /\ ~call.w.direct =>
                         /\ call.w.word = call.value
                         /\ call.w.word_at
                              = Add64(call.w.self, ToWord(SizeofNbInst))
              ELSE /\ call.w.direct /\ call.w.internal
                   /\ FirstAlignedFrom(call.ptr,
                                       Add64(call.self, ToWord(SizeofNbInst)),
                                       call.align)
        /\ ~call.ok =>
              /\ call.value # Zero64 /\ ~call.gc
              /\ ~FitsInt32(Sub64(call.value, call.self))

\* an indirect wrapper at a block that the reallocation moved, whose low 32
\* bits of the distance are those of a near payload, decodes to the address
C39_Witness ==
    /\ IsLayout /\ call.ok /\ ~call.w.direct
    /\ call.w.self # call.self
    /\ Int32Cast(Sub64(call.value, call.self)) = <<40, 0>>
    /\ call.ptr = call.value

\* a co-located payload that needed padding
C39_WitnessColocated ==
    /\ IsLayout /\ call.ok /\ call.w.internal
    /\ call.ptr # Add64(call.self, ToWord(SizeofNbInst))

(***************************************************************************)
(* Manual layout of the slots of a type object (nb_type_from_metaclass     *)
(* before Python 3.12).  An entry of type_slots is the position, in        *)
(* pointer-sized words, of one field of PyHeapTypeObject; the field's name *)
(* stands for that position.                                               *)
(***************************************************************************)

\* type_slots[] of a build for Python 3.10 or 3.11: entry k (counted from 1)
\* belongs to slot id k
type_slots_310 ==
    <<"bf_getbuffer", "bf_releasebuffer", "mp_ass_subscript", "mp_length",
      "mp_subscript", "nb_absolute", "nb_add", "nb_and", "nb_bool",
      "nb_divmod", "nb_float", "nb_floor_divide", "nb_index",
      "nb_inplace_add", "nb_inplace_and", "nb_inplace_floor_divide",
      "nb_inplace_lshift", "nb_inplace_multiply", "nb_inplace_or",
      "nb_inplace_power", "nb_inplace_remainder", "nb_inplace_rshift",
      "nb_inplace_subtract", "nb_inplace_true_divide", "nb_inplace_xor",
      "nb_int", "nb_invert", "nb_lshift", "nb_multiply", "nb_negative",
      "nb_or", "nb_positive", "nb_power", "nb_remainder", "nb_rshift",
      "nb_subtract", "nb_true_divide", "nb_xor", "sq_ass_item", "sq_concat",
      "sq_contains", "sq_inplace_concat", "sq_inplace_repeat", "sq_item",
      "sq_length", "sq_repeat", "tp_alloc", "tp_base", "tp_bases", "tp_call",
      "tp_clear", "tp_dealloc", "tp_del", "tp_descr_get", "tp_descr_set",
      "tp_doc", "tp_getattr", "tp_getattro", "tp_hash", "tp_init",
      "tp_is_gc", "tp_iter", "tp_iternext", "tp_methods", "tp_new",
      "tp_repr", "tp_richcompare", "tp_setattr", "tp_setattro", "tp_str",
      "tp_traverse", "tp_members", "tp_getset", "tp_free",
      "nb_matrix_multiply", "nb_inplace_matrix_multiply", "am_await",
      "am_aiter", "am_anext", "tp_finalize", "am_send">>

\* before Python 3.10 the table has no entry for am_send
type_slots(py310) ==
    IF py310 THEN type_slots_310
    ELSE SubSeq(type_slots_310, 1, Len(type_slots_310) - 1)

\* a write through a position that an out-of-bounds table read produced and
\* that lies in no field of the type object
Outside == "outside"

\* one element of PyType_Spec::slots
TypeSlot(slot, pfunc) == [slot |-> slot, pfunc |-> pfunc]

\* what the loop did with one element
SlotStep(ts, read, index, stored, at, rejected) ==
    [slot |-> ts.slot, pfunc |-> ts.pfunc, read |-> read, index |-> index,
     stored |-> stored, at |-> at, rejected |-> rejected]

\* the loop over spec->slots.  'table' is type_slots, 'ts' the elements up to
\* and including the terminating 0, 'stray' the position an out-of-bounds read
\* of the table yields.  sizeof(type_slots) is the number of entries, each
\* being one byte.
RECURSIVE slots_loop(_, _, _, _, _)
slots_loop(table, ts, stray, k, acc) ==
    LET slot == ts[k].slot
    IN  IF slot = 0 THEN acc
        ELSE IF slot < Len(table)
        THEN LET at == IF slot - 1 >= 0 THEN table[slot] ELSE stray
             IN  slots_loop(table, ts, stray, k + 1,
                     [acc EXCEPT
                        !.ht = [f \in DOMAIN acc.ht \cup {at} |->
                                   IF f = at THEN ts[k].pfunc ELSE acc.ht[f]],
                        !.trace = Append(@, SlotStep(ts[k], TRUE, slot - 1,
                                                     TRUE, at, FALSE))])
        ELSE [acc EXCEPT
                !.fail = TRUE,
                !.err = "RuntimeError",
                !.trace = Append(@, SlotStep(ts[k], FALSE, 0, FALSE, Outside,
                                             TRUE))]

nb_type_from_metaclass_slots(table, ts, stray) ==
    slots_loop(table, ts, stray, 1,
               [ht |-> << >>, trace |-> << >>, fail |-> FALSE,
                err |-> NoError])

SlotsCall(py310, ts, r) ==
    [op |-> "type_slots", py310 |-> py310, ts |-> ts, ht |-> r.ht,
     trace |-> r.trace, fail |-> r.fail, err |-> r.err]

\* slot ids a type spec can hold besides the terminating 0
SlotIds == {-1, 1, 56, 65, 80, 81, 82}

SlotFuncs == {1, 2}

\* the longest list of slots before the terminator
MaxSlots == 2

SlotLists(ids, funcs) ==
    UNION {[1..n -> {TypeSlot(i, f) : i \in ids, f \in funcs}] : n \in 0..MaxSlots}

\* nb_type_from_metaclass(): the layout of the slots of one type spec
FromMetaclassSlots(ids, funcs) ==
    /\ Running
    /\ \E py310 \in BOOLEAN, body \in SlotLists(ids, funcs),
          stray \in {Outside, "tp_dealloc"} :
          \E r \in {nb_type_from_metaclass_slots(
                        type_slots(py310), Append(body, TypeSlot(0, 0)),
                        stray)} :
             call' = SlotsCall(py310, Append(body, TypeSlot(0, 0)), r)
    /\ UNCHANGED <<inst, inst_c2p, type_c2p, keep_alive, nb_types, nb_type_dict,
                   tp_dict, nb_static_property_enabled, fatal, log>>

NextSlots ==
    \/ FromMetaclassSlots(SlotIds, SlotFuncs)
    \/ Return

SpecSlots == Init /\ [][NextSlots]_vars

IsSlots == call.op = "type_slots"

\* C40: with N the number of entries of type_slots, every slot id i with
\* 1 <= i <= N of a type spec is stored at the position that table entry
\* i - 1 gives, and every id outside 1..N other than the terminating 0 is
\* rejected with a runtime error, no table entry having been read and nothing
\* having been written for it.
C40_SlotIdsStoredOrRejected ==
    IsSlots =>
        \A k \in 1..Len(call.trace) :
            LET e == call.trace[k]
                table == type_slots(call.py310)
            IN  /\ (e.slot >= 1 /\ e.slot <= Len(table)) =>
                      /\ ~e.rejected
                      /\ e.read /\ e.index = e.slot - 1
                      /\ e.stored /\ e.at = table[e.slot]
                /\ (e.slot < 0 \/ e.slot > Len(table)) =>
                      /\ e.rejected /\ call.fail /\ call.err = "RuntimeError"
                      /\ ~e.read /\ ~e.stored

\* the slot ids below the number of entries are stored where the table says
C40_BelowLastStored ==
    IsSlots =>
        \A k \in 1..Len(call.trace) :
            LET e == call.trace[k]
                table == type_slots(call.py310)
            IN  (e.slot >= 1 /\ e.slot < Len(table)) =>
                   /\ ~e.rejected /\ e.read /\ e.index = e.slot - 1
                   /\ e.stored /\ e.at = table[e.slot]
                   /\ call.ht[e.at] \in {call.trace[j].pfunc :
                                           j \in k..Len(call.trace)}

\* the last slot id of the table is rejected
C40_LastIdRejected ==
    /\ IsSlots /\ call.fail
    /\ \E k \in 1..Len(call.trace) :
          /\ call.trace[k].slot = Len(type_slots(call.py310))
          /\ call.trace[k].rejected

\* a negative slot id reads the table out of bounds
C40_NegativeIdRead ==
    /\ IsSlots
    /\ \E k \in 1..Len(call.trace) :
          /\ call.trace[k].slot < 0
          /\ call.trace[k].read /\ call.trace[k].index < 0
          /\ call.trace[k].stored

=============================================================================
